---- MODULE Spec2Model ----
(***************************************************************************)
(* Model of the MongoDB QA test runner (run_tests.py) and of the files the *)
(* suite scripts leave in the reports directory.                           *)
(*                                                                         *)
(* One runner process is alive at a time; when it has exited the next      *)
(* invocation may begin on the file system the earlier ones left behind.   *)
(* The wall clock `now` counts whole seconds, which is the resolution of   *)
(* strftime('%Y%m%d_%H%M%S') in every report file name.                    *)
(***************************************************************************)
EXTENDS Integers, Sequences, FiniteSets, TLC

\* ---------------------------------------------------------------- bounds
MaxRuns == 2      \* runner invocations in one behaviour
MaxClock == 1     \* last second of the wall clock (seconds 0..MaxClock)

\* ------------------------------------------------------------- constants
None == "none"

Order_Swapped == <<"performance", "functional", "security", "validation">>

\* main(): the four `if args.suite in ["all", X]` blocks, top to bottom
Order == <<"functional", "performance", "security", "validation">>

Suites == {Order[i] : i \in 1..Len(Order)}

\* `args.suite in ["all", s]`
InSelection(suite, s) == suite \in {"all", s}

\* keys of report["suite_results"] and the key of `results` each one reads
SuiteKeys == {"functional_tests", "performance_tests", "security_tests",
              "data_validation_tests"}

ResultKey(k) ==
    CASE k = "functional_tests" -> "functional"
      [] k = "performance_tests" -> "performance"
      [] k = "security_tests" -> "security"
      [] k = "data_validation_tests" -> "validation"

\* file-name prefix of the category report a suite script writes; the pytest
\* script (functional) writes none
Prefix(s) ==
    CASE s = "functional" -> None
      [] s = "performance" -> "performance_report"
      [] s = "security" -> "security_report"
      [] s = "validation" -> "validation_report"

\* ways a spawned suite script can end:
\*   ok         runs to the end of its __main__ block
\*   crash      an exception escapes before the report is generated
\*   late       an exception escapes after the report was generated
Outcomes == {"ok", "crash", "late"}

\* ----------------------------------------------------------------- state
VARIABLES
    pc,            \* position of main(): idle, setup, load, suites, wait,
                   \*   exit, done
    args,          \* parsed command line [suite, skip_setup]
    idx,           \* the `if args.suite in` block main() evaluates next;
                   \*   Len(Order) + 1 when it is past the last one
    cur,           \* suite whose run_command call main() is blocked in
    results,       \* main()'s `results` dict: suite -> success
    rc,            \* return_code of each run_command call made for a suite
    started,       \* number of run_command calls made for each suite
    inflight,      \* suite subprocesses that are alive
    hung,          \* alive subprocesses that will never terminate
    setupCalls,    \* calls of setup_environment in this invocation
    envOk,         \* what setup_environment did: None (not called),
                   \*   "passed" or "failed"
    summaryWrites, \* summary files written by this invocation
    report,        \* <<dict returned by generate_summary_report>>, or <<>>
    exitCode,      \* <<exit status of the runner process>>, or <<>>
    run,           \* number of the current invocation
    now,           \* wall clock, in seconds
    reportsDir,    \* the reports directory exists
    files          \* reports directory: file name <<prefix, second>> ->
                   \*   invocation that wrote the content it holds

\* State of one suite script run as a process of its own (the executors of
\* automation-scripts/), and of the other tools of the repository.
VARIABLES
    suitePc,       \* position of the script: idle, then the step it is at
    test_results,  \* the tester's accumulator self.test_results
    suiteExit,     \* <<exit status of the script's process>>, or <<>>
    script,        \* the suite script that process executes
    pytestRet,     \* <<value pytest.main returned>>, or <<>>
    test_input,    \* the value handed to validate_user_input
    is_valid,      \* <<what validate_user_input returned>>, or <<>>
    original_doc,  \* <<the document the balance check inserts>>, or <<>>
    updates,       \* the balance check's list of updates, as signed amounts
    stored,        \* integrity_test: <<the document it holds>>, or <<>>
    applied,       \* update_one calls made so far
    consistency,   \* <<status of Data Consistency After Updates>>, or <<>>
    perfPc,        \* the performance tester's next method, or how it ended
    perf_results,  \* the performance tester's accumulator self.results
    db,            \* the MongoDB server's collections: name -> [docs,
                   \*   unique (fields under a unique index), validator]
    server,        \* how the server is set up: [rejects_invalid, tls]
    attempt,       \* which run of the suite against this database it is
    firstRun,      \* <<what the first run recorded>>, or <<>>
    genPc,         \* position of report_generator.py: idle, html, excel,
                   \*   done, raised
    loaded,        \* what load_latest_results returned last
    html_sections, \* <<category sections of the HTML report>>, or <<>>
    sheets,        \* <<sheets of the Excel workbook>>, or <<>>
    returned,      \* <<what the dashboard answered to the request just
                   \*   served>>, or <<>>
    conc,          \* test_concurrent_operations, main thread: its arguments
                   \*   and the index its start or join loop is at
    workers,       \* the threads it created: thread_id -> [pc (new, run,
                   \*   done), thread_results (entries appended so far)]
    tester,        \* a MongoDBTester: [connection_string, database_name,
                   \*   client, db]
    reachable,     \* a MongoDB server listens on localhost:27017
    ret,           \* <<how the tester's last call ended>>, or <<>>
    calls,         \* calls made on the tester
    suite_report,  \* <<the report run_full_*_suite returned last>>, or <<>>
    txPc,          \* statement test_transaction_handling is at
    locals,        \* its local variables that are bound: name -> value
    test_cases,    \* its list test_cases
    seen,          \* the <<balance of ACC001, balance of ACC002>> pairs
                   \*   another client of the database has read
    crudPc,        \* what pytest calls next on TestMongoDBCRUDOperations:
                   \*   setup_method, the test, teardown_method; or idle, done
    item,          \* the test function it is at
    pending,       \* the test functions not yet run
    outcomes       \* test function -> what its body saw

Empty == [x \in {} |-> FALSE]

vars == <<pc, args, idx, cur, results, rc, started, inflight, hung,
          setupCalls, envOk, summaryWrites, report, exitCode, run, now,
          reportsDir, files, suitePc, test_results, suiteExit, script,
          pytestRet, test_input, is_valid, original_doc, updates, stored,
          applied, consistency, perfPc, perf_results, db, server, attempt,
          firstRun, genPc, loaded, html_sections, sheets, returned,
          conc, workers, tester, reachable, ret, calls, suite_report,
          txPc, locals, test_cases, seen, crudPc, item, pending,
          outcomes>>

runner == <<pc, args, idx, cur, results, rc, started, inflight, hung,
            setupCalls, envOk, summaryWrites, report, exitCode, run>>

fsVars == <<now, reportsDir, files>>

scriptVars == <<suitePc, test_results, suiteExit, script, pytestRet>>

validatorVars == <<test_input, is_valid>>

integrityVars == <<original_doc, updates, stored, applied, consistency>>

perfVars == <<perfPc, perf_results>>

dbVars == <<db, server, attempt, firstRun>>

genVars == <<genPc, loaded, html_sections, sheets>>

dashVars == <<returned>>

\* the suite scripts' and the report generator's state
toolVars ==
    <<scriptVars, validatorVars, integrityVars, perfVars, dbVars, genVars>>

concVars == <<conc, workers>>

connVars == <<tester, reachable, ret, calls>>

accVars == <<suite_report>>

txVars == <<txPc, locals, test_cases, seen>>

crudVars == <<crudPc, item, pending, outcomes>>

\* the state of the dashboard, of the worker threads, of a MongoDBTester,
\* of a tester object used more than once, of the transaction check and of
\* the CRUD test class
lateVars == <<dashVars, concVars, connVars, accVars, txVars, crudVars>>

\* what the dashboard and the writers of the reports leave alone
offDash == <<toolVars, concVars, connVars, accVars, txVars, crudVars>>

\* what test_concurrent_operations leaves alone
offConc ==
    <<fsVars, scriptVars, validatorVars, integrityVars, dbVars, genVars,
      dashVars, connVars, accVars, txVars, crudVars>>

\* what a MongoDBTester leaves alone
offConn ==
    <<fsVars, toolVars, dashVars, concVars, accVars, txVars, crudVars>>

\* what a suite run on one tester object leaves alone
offAcc ==
    <<validatorVars, integrityVars, perfVars, genVars, dashVars, concVars,
      connVars, txVars, crudVars>>

\* what the transaction check leaves alone
offTx ==
    <<fsVars, scriptVars, validatorVars, integrityVars, perfVars, genVars,
      dashVars, concVars, connVars, accVars, crudVars>>

\* what the CRUD tests leave alone
offCrud ==
    <<fsVars, scriptVars, validatorVars, integrityVars, perfVars, genVars,
      dashVars, concVars, connVars, accVars, txVars>>

aux == <<toolVars, lateVars>>

\* what a suite script leaves alone
offScript ==
    <<validatorVars, integrityVars, perfVars, dbVars, genVars, lateVars>>

\* what a call of the validator leaves alone
offValidator ==
    <<fsVars, scriptVars, integrityVars, perfVars, dbVars, genVars, lateVars>>

\* what the balance check leaves alone
offIntegrity ==
    <<fsVars, scriptVars, validatorVars, perfVars, dbVars, genVars, lateVars>>

\* what the performance tester's checks leave alone
offPerf ==
    <<fsVars, scriptVars, validatorVars, integrityVars, dbVars, genVars,
      lateVars>>

\* what a run of a suite against the database leaves alone
offRerun == <<validatorVars, integrityVars, perfVars, genVars, lateVars>>

\* what the report generator and the writers of its input leave alone
offGen ==
    <<scriptVars, validatorVars, integrityVars, perfVars, dbVars, lateVars>>

\* an empty working directory at second 0
FsIdle ==
    /\ now = 0
    /\ reportsDir = FALSE
    /\ files = Empty

\* no suite script is running
ScriptIdle ==
    /\ suitePc = "idle"
    /\ test_results = <<>>
    /\ suiteExit = <<>>
    /\ script = None
    /\ pytestRet = <<>>

\* the validator has not been called
ValidatorIdle ==
    /\ test_input = None
    /\ is_valid = <<>>

\* the balance check has not begun
IntegrityIdle ==
    /\ original_doc = <<>>
    /\ updates = <<>>
    /\ stored = <<>>
    /\ applied = 0
    /\ consistency = <<>>

\* no performance tester exists
PerfIdle ==
    /\ perfPc = "idle"
    /\ perf_results = <<>>

\* the database is not looked at
DbIdle ==
    /\ db = Empty
    /\ server = [rejects_invalid |-> FALSE, tls |-> FALSE]
    /\ attempt = 0
    /\ firstRun = <<>>

\* the report generator has not been started
GenIdle ==
    /\ genPc = "idle"
    /\ loaded = Empty
    /\ html_sections = <<>>
    /\ sheets = <<>>

\* the dashboard has served nothing
DashIdle == returned = <<>>

\* no suite script and no report generator is running
ToolsIdle ==
    ScriptIdle /\ ValidatorIdle /\ IntegrityIdle /\ PerfIdle /\ DbIdle /\ GenIdle

\* test_concurrent_operations has not been called
ConcIdle ==
    /\ conc = [num_threads |-> 0, operations_per_thread |-> 0, next |-> 0]
    /\ workers = <<>>

\* no MongoDBTester exists
ConnIdle ==
    /\ tester = [connection_string |-> None, database_name |-> None,
                 client |-> None, db |-> None]
    /\ reachable = FALSE
    /\ ret = <<>>
    /\ calls = 0

\* no run_full_*_suite call has returned
AccIdle == suite_report = <<>>

\* test_transaction_handling has not been called
TxIdle ==
    /\ txPc = "idle"
    /\ locals = Empty
    /\ test_cases = <<>>
    /\ seen = {}

\* pytest has not come to TestMongoDBCRUDOperations
CrudIdle ==
    /\ crudPc = "idle"
    /\ item = None
    /\ pending = {}
    /\ outcomes = Empty

LateIdle ==
    DashIdle /\ ConcIdle /\ ConnIdle /\ AccIdle /\ TxIdle /\ CrudIdle

OffDashIdle ==
    ToolsIdle /\ ConcIdle /\ ConnIdle /\ AccIdle /\ TxIdle /\ CrudIdle

OffConcIdle ==
    /\ FsIdle /\ ScriptIdle /\ ValidatorIdle /\ IntegrityIdle /\ DbIdle
    /\ GenIdle /\ DashIdle /\ ConnIdle /\ AccIdle /\ TxIdle /\ CrudIdle

OffConnIdle ==
    /\ FsIdle /\ ToolsIdle /\ DashIdle /\ ConcIdle /\ AccIdle /\ TxIdle
    /\ CrudIdle

OffAccIdle ==
    /\ ValidatorIdle /\ IntegrityIdle /\ PerfIdle /\ GenIdle /\ DashIdle
    /\ ConcIdle /\ ConnIdle /\ TxIdle /\ CrudIdle

OffTxIdle ==
    /\ FsIdle /\ ScriptIdle /\ ValidatorIdle /\ IntegrityIdle /\ PerfIdle
    /\ GenIdle /\ DashIdle /\ ConcIdle /\ ConnIdle /\ AccIdle /\ CrudIdle

OffCrudIdle ==
    /\ FsIdle /\ ScriptIdle /\ ValidatorIdle /\ IntegrityIdle /\ PerfIdle
    /\ GenIdle /\ DashIdle /\ ConcIdle /\ ConnIdle /\ AccIdle /\ TxIdle

\* none of the other tools is running
AuxIdle == ToolsIdle /\ LateIdle

OffScriptIdle ==
    ValidatorIdle /\ IntegrityIdle /\ PerfIdle /\ DbIdle /\ GenIdle /\ LateIdle

OffValidatorIdle ==
    /\ FsIdle /\ ScriptIdle /\ IntegrityIdle /\ PerfIdle /\ DbIdle /\ GenIdle
    /\ LateIdle

OffIntegrityIdle ==
    /\ FsIdle /\ ScriptIdle /\ ValidatorIdle /\ PerfIdle /\ DbIdle /\ GenIdle
    /\ LateIdle

OffPerfIdle ==
    /\ FsIdle /\ ScriptIdle /\ ValidatorIdle /\ IntegrityIdle /\ DbIdle
    /\ GenIdle /\ LateIdle

OffRerunIdle ==
    ValidatorIdle /\ IntegrityIdle /\ PerfIdle /\ GenIdle /\ LateIdle

OffGenIdle ==
    /\ ScriptIdle /\ ValidatorIdle /\ IntegrityIdle /\ PerfIdle /\ DbIdle
    /\ LateIdle

\* ------------------------------------------------------------ operators
\* d[k] = v
Put(d, k, v) == [x \in DOMAIN d \cup {k} |-> IF x = k THEN v ELSE d[x]]

Success_Spawned(code) == code # -1

\* run_command: "success": result.returncode == 0
Success(code) == code = 0

\* open(name, "w") in an existing directory: creates or truncates
WriteFile(fsFiles, name, writer) == Put(fsFiles, name, writer)

\* generate_summary_report: the report dict built from `results`
SummaryOf(res) ==
    [total_suites |-> Cardinality(DOMAIN res),
     passed_suites |-> Cardinality({s \in DOMAIN res : res[s]}),
     failed_suites |-> Cardinality({s \in DOMAIN res : ~res[s]}),
     overall_status |-> IF \A s \in DOMAIN res : res[s] THEN "PASS" ELSE "FAIL",
     suite_results |-> [k \in SuiteKeys |->
                          IF ResultKey(k) \in DOMAIN res /\ res[ResultKey(k)]
                          THEN "PASS" ELSE "FAIL"]]

\* main(): exit status chosen from the summary's overall_status
ExitStatus(rep) == IF rep.overall_status = "PASS" THEN 0 ELSE 1

AfterSetup_Ignored(ok) == "load"

\* main(): `if not setup_environment(): ... sys.exit(1)`
AfterSetup(ok) == IF ok THEN "load" ELSE "done"

ResumeAt_StopOnFailure(next, success) ==
    IF success THEN next ELSE Len(Order) + 1

\* main() stores what run_<suite>_tests returned and falls through to the
\* `if` block that follows the call, whatever the result was
ResumeAt(next, success) == next

SpawnPc_NoWait(spawned) == "suites"

\* subprocess.run returns only when the child has terminated; a child that
\* could not be spawned makes run_command return at once
SpawnPc(spawned) == IF spawned THEN "wait" ELSE "suites"

\* Does script s, ending as `outcome`, get as far as opening its report file?
ReachesReport(s, outcome) == Prefix(s) # None /\ outcome # "crash"

\* security and validation call os.makedirs("reports", exist_ok=True) before
\* they open the report file; performance opens it without
MakesDir(s, outcome) ==
    ReachesReport(s, outcome) /\ s \in {"security", "validation"}

WritesReport(s, outcome, dirExists) ==
    ReachesReport(s, outcome) /\ (dirExists \/ MakesDir(s, outcome))

\* exit status of the script's process: 0 at the end of __main__, 1 when an
\* exception escapes (open() in a missing directory raises)
ScriptCode(s, outcome, dirExists) ==
    IF outcome = "ok" /\ (Prefix(s) = None \/ WritesReport(s, outcome, dirExists))
    THEN 0 ELSE 1

\* ------------------------------------------------------------------ Init
\* no runner process has been started yet
RunnerIdle ==
    /\ pc = "idle"
    /\ args = [suite |-> "all", skip_setup |-> FALSE]
    /\ idx = 1
    /\ cur = None
    /\ results = Empty
    /\ rc = Empty
    /\ started = [s \in Suites |-> 0]
    /\ inflight = {}
    /\ hung = {}
    /\ setupCalls = 0
    /\ envOk = None
    /\ summaryWrites = 0
    /\ report = <<>>
    /\ exitCode = <<>>
    /\ run = 0

Init ==
    /\ RunnerIdle
    /\ now = 0
    /\ reportsDir \in BOOLEAN
    /\ files = Empty
    /\ AuxIdle

\* --------------------------------------------------------------- actions
\* A new runner process: argparse, then the banner.
Invoke ==
    /\ pc \in {"idle", "done"}
    /\ run < MaxRuns
    /\ \E suite \in {"all"} \cup Suites, skip \in BOOLEAN :
         args' = [suite |-> suite, skip_setup |-> skip]
    /\ pc' = "setup"
    /\ idx' = 1
    /\ cur' = None
    /\ results' = Empty
    /\ rc' = Empty
    /\ started' = [s \in Suites |-> 0]
    /\ inflight' = {}
    /\ hung' = {}
    /\ setupCalls' = 0
    /\ envOk' = None
    /\ summaryWrites' = 0
    /\ report' = <<>>
    /\ exitCode' = <<>>
    /\ run' = run + 1
    /\ UNCHANGED <<now, reportsDir, files>>
    /\ UNCHANGED aux

\* main(): --skip-setup given, setup_environment is not called.
SkipSetup ==
    /\ pc = "setup"
    /\ args.skip_setup
    /\ pc' = "load"
    /\ UNCHANGED <<args, idx, cur, results, rc, started, inflight, hung,
                   setupCalls, envOk, summaryWrites, report, exitCode, run,
                   now, reportsDir, files>>
    /\ UNCHANGED aux

\* setup_environment(): make the directories, ping the server; when it
\* returns False main() prints and calls sys.exit(1).
SetupEnvironment ==
    /\ pc = "setup"
    /\ ~args.skip_setup
    /\ setupCalls' = setupCalls + 1
    /\ reportsDir' = TRUE
    /\ \E mongoUp \in BOOLEAN :
         /\ envOk' = IF mongoUp THEN "passed" ELSE "failed"
         /\ pc' = AfterSetup(mongoUp)
    /\ exitCode' = IF pc' = "done" THEN <<1>> ELSE exitCode
    /\ UNCHANGED <<args, idx, cur, results, rc, started, inflight, hung,
                   summaryWrites, report, run, now, files>>
    /\ UNCHANGED aux

\* main(): `if args.load_data: load_test_data()`.  With or without the flag
\* the step changes nothing but main()'s position: load_test_data only looks
\* for the data file and prints, and catches what it raises.
LoadTestData ==
    /\ pc = "load"
    /\ pc' = "suites"
    /\ UNCHANGED <<args, idx, cur, results, rc, started, inflight, hung,
                   setupCalls, envOk, summaryWrites, report, exitCode, run,
                   now, reportsDir, files>>
    /\ UNCHANGED aux

\* main(): an `if args.suite in ["all", X]` block whose test is false.
SkipSuite ==
    /\ pc = "suites"
    /\ idx <= Len(Order)
    /\ ~InSelection(args.suite, Order[idx])
    /\ idx' = idx + 1
    /\ UNCHANGED <<pc, args, cur, results, rc, started, inflight, hung,
                   setupCalls, envOk, summaryWrites, report, exitCode, run,
                   now, reportsDir, files>>
    /\ UNCHANGED aux

\* run_<suite>_tests() -> run_command(): spawn the script.  If the spawn
\* raises, run_command returns success False with return_code -1 and main()
\* stores it.
SuiteStart ==
    /\ pc = "suites"
    /\ idx <= Len(Order)
    /\ InSelection(args.suite, Order[idx])
    /\ LET s == Order[idx] IN
         /\ started' = [started EXCEPT ![s] = @ + 1]
         /\ \E spawned \in BOOLEAN, hangs \in BOOLEAN :
              /\ pc' = SpawnPc(spawned)
              /\ IF spawned
                 THEN /\ inflight' = inflight \cup {s}
                      /\ hung' = IF hangs THEN hung \cup {s} ELSE hung
                      /\ cur' = s
                      /\ idx' = idx + 1
                      /\ UNCHANGED <<results, rc>>
                 ELSE /\ ~hangs
                      /\ results' = Put(results, s, Success(-1))
                      /\ rc' = Put(rc, s, -1)
                      /\ idx' = ResumeAt(idx + 1, Success(-1))
                      /\ UNCHANGED <<inflight, hung, cur>>
    /\ UNCHANGED <<args, setupCalls, envOk, summaryWrites, report, exitCode,
                   run, now, reportsDir, files>>
    /\ UNCHANGED aux

\* The suite script terminates (with whatever it wrote on the way),
\* run_command returns its return code and main() stores the success flag.
SuiteExit ==
    /\ pc = "wait"
    /\ cur \in inflight
    /\ cur \notin hung
    /\ \E outcome \in Outcomes :
         LET s == cur
             code == ScriptCode(s, outcome, reportsDir)
             name == <<Prefix(s), now>>
         IN /\ reportsDir' = (reportsDir \/ MakesDir(s, outcome))
            /\ IF WritesReport(s, outcome, reportsDir)
               THEN files' = WriteFile(files, name, run)
               ELSE files' = files
            /\ results' = Put(results, s, Success(code))
            /\ rc' = Put(rc, s, code)
            /\ idx' = ResumeAt(idx, Success(code))
    /\ inflight' = inflight \ {cur}
    /\ cur' = None
    /\ pc' = "suites"
    /\ UNCHANGED <<args, started, hung, setupCalls, envOk, summaryWrites,
                   report, exitCode, run, now>>
    /\ UNCHANGED aux

\* generate_summary_report(results): build the dict and dump it to
\* reports/test_summary_<second>.json.  open() raises FileNotFoundError when
\* the directory is missing; nothing catches it, the interpreter exits 1.
GenerateSummaryReport ==
    /\ pc = "suites"
    /\ idx > Len(Order)
    /\ LET name == <<"test_summary", now>> IN
         IF reportsDir
         THEN /\ files' = WriteFile(files, name, run)
              /\ summaryWrites' = summaryWrites + 1
              /\ report' = <<SummaryOf(results)>>
              /\ pc' = "exit"
              /\ exitCode' = exitCode
         ELSE /\ pc' = "done"
              /\ exitCode' = <<1>>
              /\ UNCHANGED <<files, summaryWrites, report>>
    /\ UNCHANGED <<args, idx, cur, results, rc, started, inflight, hung,
                   setupCalls, envOk, run, now, reportsDir>>
    /\ UNCHANGED aux

\* main(): sys.exit(0) or sys.exit(1) from the summary's overall_status.
SysExit ==
    /\ pc = "exit"
    /\ exitCode' = <<ExitStatus(report[1])>>
    /\ pc' = "done"
    /\ UNCHANGED <<args, idx, cur, results, rc, started, inflight, hung,
                   setupCalls, envOk, summaryWrites, report, run, now,
                   reportsDir, files>>
    /\ UNCHANGED aux

\* The wall clock reaches the next second.
Tick ==
    /\ now < MaxClock
    /\ now' = now + 1
    /\ UNCHANGED <<pc, args, idx, cur, results, rc, started, inflight, hung,
                   setupCalls, envOk, summaryWrites, report, exitCode, run,
                   reportsDir, files>>
    /\ UNCHANGED aux

Next ==
    \/ Invoke
    \/ SkipSetup
    \/ SetupEnvironment
    \/ LoadTestData
    \/ SkipSuite
    \/ SuiteStart
    \/ SuiteExit
    \/ GenerateSummaryReport
    \/ SysExit
    \/ Tick

Spec == Init /\ [][Next]_vars

\* ---------------------------------------------------------------- claims
\* helpers of the claims
\* the suites a --suite value asks for
Selected(suite) == IF suite = "all" THEN Suites ELSE {suite}

\* the order the specification gives for --suite all
ClaimedOrder == <<"functional", "performance", "security", "validation">>

PosOf(s) == CHOOSE i \in 1..Len(ClaimedOrder) : ClaimedOrder[i] = s

\* the suite's subprocess has exited with code 0
ExitedZero(s) == s \in DOMAIN rc /\ rc[s] = 0

\* a run_command call for the suite has returned a failure
ExitedNonZero(s) == s \in DOMAIN rc /\ rc[s] # 0

\* main() is past the last `if args.suite in` block
PastSuites == idx > Len(Order) /\ pc \in {"suites", "exit", "done"}

\* C1: the runner exits with code 0 if and only if every selected suite's
\* subprocess exited with code 0, and with code 1 otherwise.
C1_ExitZeroIffAllSuitesZero ==
    pc = "done" =>
        /\ exitCode \in {<<0>>, <<1>>}
        /\ exitCode = <<0>> <=> \A s \in Selected(args.suite) : ExitedZero(s)

\* C2: once past the environment check every selected suite is started
\* exactly once (and no other suite at all), whether or not an earlier suite
\* failed or could not be spawned; its failure is recorded as a failed suite.
C2_EverySelectedSuiteStartedOnce ==
    /\ \A s \in Suites : started[s] <= 1
    /\ \A s \in Suites \ Selected(args.suite) : started[s] = 0
    /\ PastSuites => \A s \in Selected(args.suite) : started[s] = 1
    /\ \A s \in DOMAIN rc : rc[s] # 0 => s \in DOMAIN results /\ ~results[s]

\* C2 witness: a suite was started after an earlier one failed to spawn and
\* another exited non-zero.
C2_Witness ==
    /\ args.suite = "all"
    /\ PastSuites
    /\ rc["functional"] = -1
    /\ rc["performance"] = 1
    /\ started["security"] = 1
    /\ started["validation"] = 1

\* C3: with --suite all the suites are started in the order functional,
\* performance, security, validation: a suite is started only when every
\* suite before it in that order has been started and has finished.
C3_FixedOrder ==
    args.suite = "all" =>
        \A s \in Suites : started[s] > 0 =>
            \A t \in Suites : PosOf(t) < PosOf(s) =>
                started[t] = 1 /\ t \in DOMAIN rc /\ t \notin inflight

\* C3 witness: the last suite of the order is running, the three before it
\* have finished.
C3_Witness ==
    /\ args.suite = "all"
    /\ inflight = {"validation"}
    /\ DOMAIN rc = {"functional", "performance", "security"}

\* C4: a failed environment check (without --skip-setup) aborts the run: no
\* suite is started, no summary file is written, the exit code is 1; the
\* check is made at most once; with --skip-setup it is not made and the
\* suites run.
C4_SetupFailureAborts ==
    /\ setupCalls <= 1
    /\ envOk = "failed" =>
          /\ pc = "done"
          /\ exitCode = <<1>>
          /\ setupCalls = 1
          /\ \A s \in Suites : started[s] = 0
          /\ inflight = {}
          /\ summaryWrites = 0
          /\ report = <<>>
          /\ \A n \in DOMAIN files : files[n] # run
    /\ (pc # "idle" /\ args.skip_setup) =>
          /\ setupCalls = 0
          /\ envOk = None
          /\ pc = "done" => \A s \in Selected(args.suite) : started[s] = 1
    /\ (pc \notin {"idle", "setup"} /\ ~args.skip_setup) => setupCalls = 1

\* C4 witness: the second invocation failed its environment check after the
\* first one had left files behind.
C4_Witness ==
    /\ envOk = "failed"
    /\ exitCode = <<1>>
    /\ run = 2
    /\ files # Empty

\* C5: an invocation that reached the suite phase has, when it exits,
\* written exactly one summary file into an existing reports directory, and
\* it writes it only after the last selected suite has finished.
C5_OneSummaryPerInvocation ==
    /\ summaryWrites <= 1
    /\ summaryWrites = 1 => PastSuites /\ inflight = {}
    /\ (pc = "done" /\ PastSuites) => summaryWrites = 1 /\ reportsDir

\* C6: no step replaces or removes the content of a file that is already in
\* the reports directory.
C6_FilesNeverOverwritten ==
    [][\A n \in DOMAIN files : n \in DOMAIN files' /\ files'[n] = files[n]]_vars

\* C7: in the summary, total_suites is the number of selected suites,
\* passed_suites the number that exited 0, failed_suites the number that
\* did not, the two add up to the total, and overall_status is PASS exactly
\* when failed_suites is 0.
C7_SummaryCounters ==
    report # <<>> =>
        /\ report[1].total_suites = Cardinality(Selected(args.suite))
        /\ report[1].passed_suites =
              Cardinality({s \in Selected(args.suite) : ExitedZero(s)})
        /\ report[1].failed_suites =
              Cardinality({s \in Selected(args.suite) : ExitedNonZero(s)})
        /\ report[1].passed_suites + report[1].failed_suites = report[1].total_suites
        /\ report[1].overall_status \in {"PASS", "FAIL"}
        /\ report[1].overall_status = "PASS" <=> report[1].failed_suites = 0

\* C7 witness: a summary of all four suites, one of which exited non-zero
\* and one of which could not be spawned.
C7_Witness ==
    /\ report # <<>>
    /\ report[1].total_suites = 4
    /\ report[1].failed_suites = 2
    /\ \E s \in DOMAIN rc : rc[s] = -1
    /\ \E s \in DOMAIN rc : rc[s] = 1

\* C8: in the summary's per-suite map a suite is PASS exactly when it was
\* run and exited 0, and FAIL exactly when it was run and failed.
C8_MapListsExactlyTheFailures ==
    report # <<>> =>
        \A k \in SuiteKeys :
            /\ report[1].suite_results[k] = "PASS" <=> ExitedZero(ResultKey(k))
            /\ report[1].suite_results[k] = "FAIL" <=> ExitedNonZero(ResultKey(k))

\* C9: at most one suite subprocess is alive at any moment, and while one is
\* alive main() is blocked waiting for it, so the next suite is started only
\* after it has terminated.
C9_OneSuiteInFlight ==
    /\ Cardinality(inflight) <= 1
    /\ inflight # {} => pc = "wait" /\ inflight = {cur}
    /\ \A s \in inflight : s \notin DOMAIN rc

\* C9 witness: the second suite is alive after the first has terminated.
C9_Witness ==
    /\ inflight = {"performance"}
    /\ "functional" \in DOMAIN rc
    /\ started["functional"] = 1

\* C10: while a suite that never terminates is alive the runner starts no
\* later suite, writes no summary and does not exit; and a runner that has
\* exited after a passed or skipped environment check has written its
\* summary.
C10_HangBlocksElseSummaryAndExit ==
    /\ hung # {} =>
          /\ pc = "wait"
          /\ exitCode = <<>>
          /\ summaryWrites = 0
          /\ \A s \in hung : \A t \in Suites :
                PosOf(t) > PosOf(s) => started[t] = 0
    /\ (pc = "done" /\ envOk # "failed") =>
          summaryWrites = 1 /\ exitCode \in {<<0>>, <<1>>}

\* =====================================================================
\* The suite scripts of automation-scripts/, each run as a process of
\* its own (`python automation-scripts/<script>.py`).
\* =====================================================================

\* a str value, as the sequence of its characters
Str(chars) == [type |-> "str", chars |-> chars]

\* the characters validate_user_input rejects
Forbidden == {"$", "{", "}", ";"}

\* validate_user_input: `if len(username) > 50: return False`
LengthCap == 50

ValidateUserInput_CapExcluded(username) ==
    /\ username.type = "str"
    /\ ~ (Len(username.chars) >= LengthCap)
    /\ ~ \E i \in 1..Len(username.chars) : username.chars[i] \in Forbidden

\* validate_user_input(username) of test_injection_attacks
ValidateUserInput(username) ==
    /\ username.type = "str"
    /\ ~ (Len(username.chars) > LengthCap)
    /\ ~ \E i \in 1..Len(username.chars) : username.chars[i] \in Forbidden

\* test_inputs of test_injection_attacks
TestInputs ==
    << Str(<<"a", "d", "m", "i", "n">>),
       Str(<<"u", "s", "e", "r", "1">>),
       Str(<<"$", "n", "e">>),
       Str(<<"a", "d", "m", "i", "n", ";", " ", "d", "r", "o", "p", " ",
             "t", "a", "b", "l", "e", " ", "u", "s", "e", "r", "s", ";">>),
       [type |-> "dict", chars |-> <<>>] >>

\* expected_results of test_injection_attacks
ExpectedResults == <<TRUE, TRUE, FALSE, FALSE, FALSE>>

\* actual_results: the validator applied to each test input, in order
ActualResults == [i \in 1..Len(TestInputs) |-> ValidateUserInput(TestInputs[i])]

\* one entry of a test_cases list; err: the details carry the text of the
\* exception the check caught
Case(test, status, err) == [test |-> test, status |-> status, err |-> err]

\* one entry of self.test_results
Category(name, cases) == [test_category |-> name, test_cases |-> cases]

\* test_users of test_injection_attacks, as the collection holds them after
\* insert_many
TestUsers ==
    << [username |-> "admin", password |-> "admin123"],
       [username |-> "user1", password |-> "password123"],
       [username |-> "user2", password |-> "secret456"] >>

SafeFound_Missed(docs) == FALSE

\* collection.find_one({"username": "admin"}) found a document
SafeFound(docs) == \E i \in 1..Len(docs) : docs[i].username = "admin"

\* collection.find_one({"username": "admin", "password": {"$ne": None}})
\* found a document
DangerousFound(docs) ==
    \E i \in 1..Len(docs) :
        docs[i].username = "admin" /\ docs[i].password # None

\* test_authentication: two checks, each in a try of its own
AuthCases(noAuthRaises, invalidRaises) ==
    << Case("No Authentication",
            IF noAuthRaises THEN "FAIL" ELSE "PASS", noAuthRaises),
       Case("Invalid Credentials",
            IF invalidRaises THEN "PASS" ELSE "FAIL", invalidRaises) >>

SslCases_Fail(sslRaises, plainRaises) ==
    << Case("SSL Connection",
            IF sslRaises THEN "FAIL" ELSE "PASS", sslRaises),
       Case("Non-SSL Connection",
            IF plainRaises THEN "FAIL" ELSE "WARNING", plainRaises) >>

\* test_ssl_connection: two checks, each in a try of its own
SslCases(sslRaises, plainRaises) ==
    << Case("SSL Connection",
            IF sslRaises THEN "INFO" ELSE "PASS", sslRaises),
       Case("Non-SSL Connection",
            IF plainRaises THEN "FAIL" ELSE "WARNING", plainRaises) >>

\* database operations of test_data_encryption, in program order:
\*   1 delete_many  2 insert_one  3 find_one  (Application-Level Encryption)
\*   4 insert_one   (Password Hashing)        5 delete_many
EncryptionOps == 5

\* test_data_encryption: one try around the whole method; fault is the
\* operation that raises, 0 when none does.  Decrypting with the key that
\* encrypted restores the data, and hashing the same password again gives
\* the same digest.
EncryptionCases(fault) ==
    (IF fault \in 1..3 THEN <<>>
     ELSE <<Case("Application-Level Encryption", "PASS", FALSE)>>)
    \o (IF fault \in 1..4 THEN <<>>
        ELSE <<Case("Password Hashing", "PASS", FALSE)>>)
    \o (IF fault = 0 THEN <<>>
        ELSE <<Case("Data Encryption Setup", "FAIL", TRUE)>>)

\* database operations of test_injection_attacks, in program order:
\*   1 delete_many  2 insert_many  3 find_one  (Safe Query Execution)
\*   4 find_one, in a try of its own  (NoSQL Injection Prevention)
\*   (Input Validation)  5 delete_many
InjectionOps == 5

\* test_injection_attacks: one try around the whole method and an inner one
\* around the second find_one; fault is the operation that raises, docs what
\* injection_test holds after insert_many
InjectionCasesOn(fault, docs) ==
    (IF fault \in 1..3 THEN <<>>
     ELSE (IF SafeFound(docs)
           THEN <<Case("Safe Query Execution", "PASS", FALSE)>> ELSE <<>>)
          \o <<Case("NoSQL Injection Prevention",
                    IF fault = 4 \/ ~DangerousFound(docs)
                    THEN "PASS" ELSE "FAIL",
                    fault = 4)>>
          \o <<Case("Input Validation",
                    IF ActualResults = ExpectedResults THEN "PASS" ELSE "FAIL",
                    FALSE)>>)
    \o (IF fault \in {0, 4} THEN <<>>
        ELSE <<Case("Injection Testing Setup", "FAIL", TRUE)>>)

\* the same on a collection that delete_many emptied first
InjectionCases(fault) == InjectionCasesOn(fault, TestUsers)

\* where the first inner try of test_database_permissions can raise
CreateFaults == {"none", "insert_one", "drop_database"}

\* test_database_permissions: two inner tries.  drop_database runs after the
\* PASS entry was appended, so when it raises the handler appends a FAIL
\* entry for the same check.  The outer handler (Permission Testing Setup)
\* guards only the MongoClient constructor and close(), which do no I/O that
\* fails here.
PermissionCases(createFault, listRaises) ==
    (IF createFault = "insert_one" THEN <<>>
     ELSE <<Case("Database Creation Permission", "PASS", FALSE)>>)
    \o (IF createFault = "none" THEN <<>>
        ELSE <<Case("Database Creation Permission", "FAIL", TRUE)>>)
    \o <<Case("Admin Operations Access",
              IF listRaises THEN "PASS" ELSE "WARNING", listRaises)>>

\* test functions of mongodb_crud_tests.py, in collection order
FunctionalTests ==
    << "test_connection_success", "test_connection_invalid_host",
       "test_database_selection", "test_create_single_document",
       "test_create_multiple_documents", "test_read_documents",
       "test_update_documents", "test_delete_documents",
       "test_create_single_field_index", "test_create_compound_index",
       "test_query_performance_with_index" >>

\* pytest's verdicts: it catches whatever a test, its setup_method or its
\* teardown_method raises and goes on with the next test
PytestCases(failing) ==
    [i \in 1..Len(FunctionalTests) |->
        Case(FunctionalTests[i],
             IF i \in failing THEN "FAILED" ELSE "PASSED", i \in failing)]

\* some check is recorded as failed
AnyFailed(res) ==
    \E i \in 1..Len(res) :
        \E j \in 1..Len(res[i].test_cases) :
            res[i].test_cases[j].status \in {"FAIL", "FAILED"}

\* pytest.main(): ExitCode.OK or ExitCode.TESTS_FAILED
PytestMain(res) == IF AnyFailed(res) THEN 1 ELSE 0

ProcessExit_FromChecks(escaped, res) ==
    IF escaped \/ AnyFailed(res) THEN 1 ELSE 0

\* exit status of a script's process: 1 when an exception escapes __main__,
\* 0 when __main__ runs to its end; no script passes its results (or what
\* pytest.main returned) to sys.exit
ProcessExit(escaped, res) == IF escaped THEN 1 ELSE 0

\* ------------------------------------------------------ script actions
\* python automation-scripts/<script>.py on some reports directory
ScriptInit ==
    /\ RunnerIdle
    /\ now \in 0..MaxClock
    /\ reportsDir \in BOOLEAN
    /\ files = Empty
    /\ script \in {"functional", "security"}
    /\ suitePc = "main"
    /\ test_results = <<>>
    /\ suiteExit = <<>>
    /\ pytestRet = <<>>
    /\ OffScriptIdle

\* mongodb_crud_tests.py __main__: pytest.main([...]), result discarded
RunPytest ==
    /\ script = "functional"
    /\ suitePc = "main"
    /\ \E failing \in SUBSET (1..Len(FunctionalTests)) :
         test_results' = <<Category("pytest", PytestCases(failing))>>
    /\ pytestRet' = <<PytestMain(test_results')>>
    /\ suiteExit' = <<ProcessExit(FALSE, test_results')>>
    /\ suitePc' = "finished"
    /\ UNCHANGED <<script, now, reportsDir, files>>
    /\ UNCHANGED <<runner, offScript>>

TestAuthentication ==
    /\ script = "security"
    /\ suitePc = "main"
    /\ \E noAuthRaises \in BOOLEAN, invalidRaises \in BOOLEAN :
         test_results' = Append(test_results,
             Category("Authentication Testing",
                      AuthCases(noAuthRaises, invalidRaises)))
    /\ suitePc' = "ssl"
    /\ UNCHANGED <<suiteExit, script, pytestRet, now, reportsDir, files>>
    /\ UNCHANGED <<runner, offScript>>

TestSslConnection ==
    /\ script = "security"
    /\ suitePc = "ssl"
    /\ \E sslRaises \in BOOLEAN, plainRaises \in BOOLEAN :
         test_results' = Append(test_results,
             Category("SSL/TLS Testing", SslCases(sslRaises, plainRaises)))
    /\ suitePc' = "encryption"
    /\ UNCHANGED <<suiteExit, script, pytestRet, now, reportsDir, files>>
    /\ UNCHANGED <<runner, offScript>>

TestDataEncryption ==
    /\ script = "security"
    /\ suitePc = "encryption"
    /\ \E fault \in 0..EncryptionOps :
         test_results' = Append(test_results,
             Category("Data Encryption Testing", EncryptionCases(fault)))
    /\ suitePc' = "injection"
    /\ UNCHANGED <<suiteExit, script, pytestRet, now, reportsDir, files>>
    /\ UNCHANGED <<runner, offScript>>

TestInjectionAttacks ==
    /\ script = "security"
    /\ suitePc = "injection"
    /\ \E fault \in 0..InjectionOps :
         test_results' = Append(test_results,
             Category("NoSQL Injection Testing", InjectionCases(fault)))
    /\ suitePc' = "permissions"
    /\ UNCHANGED <<suiteExit, script, pytestRet, now, reportsDir, files>>
    /\ UNCHANGED <<runner, offScript>>

TestDatabasePermissions ==
    /\ script = "security"
    /\ suitePc = "permissions"
    /\ \E createFault \in CreateFaults, listRaises \in BOOLEAN :
         test_results' = Append(test_results,
             Category("Database Permissions Testing",
                      PermissionCases(createFault, listRaises)))
    /\ suitePc' = "report"
    /\ UNCHANGED <<suiteExit, script, pytestRet, now, reportsDir, files>>
    /\ UNCHANGED <<runner, offScript>>

\* generate_security_report: makedirs, then open(..., "w") and json.dump;
\* an OSError of either escapes run_full_security_suite and __main__
GenerateSecurityReport ==
    /\ script = "security"
    /\ suitePc = "report"
    /\ \E ioError \in BOOLEAN :
         IF ioError
         THEN /\ suitePc' = "raised"
              /\ suiteExit' = <<ProcessExit(TRUE, test_results)>>
              /\ UNCHANGED <<reportsDir, files>>
         ELSE /\ suitePc' = "summary"
              /\ reportsDir' = TRUE
              /\ files' = WriteFile(files, <<Prefix(script), now>>, run)
              /\ UNCHANGED suiteExit
    /\ UNCHANGED <<test_results, script, pytestRet, now>>
    /\ UNCHANGED <<runner, offScript>>

\* mongodb_security_tests.py __main__: prints every category and check of
\* the report, then falls off the end
PrintSecuritySummary ==
    /\ script = "security"
    /\ suitePc = "summary"
    /\ suitePc' = "finished"
    /\ suiteExit' = <<ProcessExit(FALSE, test_results)>>
    /\ UNCHANGED <<test_results, script, pytestRet, now, reportsDir, files>>
    /\ UNCHANGED <<runner, offScript>>

ScriptNext ==
    \/ RunPytest
    \/ TestAuthentication
    \/ TestSslConnection
    \/ TestDataEncryption
    \/ TestInjectionAttacks
    \/ TestDatabasePermissions
    \/ GenerateSecurityReport
    \/ PrintSecuritySummary

ScriptSpec == ScriptInit /\ [][ScriptNext]_vars

\* ------------------------------------------------- claims on the scripts
\* key of suite_results under which the runner reports script s
KeyOf(s) == CHOOSE k \in SuiteKeys : ResultKey(k) = s

\* what the runner's summary says about a suite whose process exited with
\* `code`
MarkOf(s, code) ==
    SummaryOf(Put(Empty, s, Success(code))).suite_results[KeyOf(s)]

\* the script's process has terminated
Terminated == suitePc \in {"finished", "raised"}

\* C11: a suite is marked PASS or FAIL from the exit status of its process
\* alone: a script that ends without an escaping exception exits 0 and is
\* marked PASS, whatever checks it recorded as failed (and whatever
\* pytest.main returned); one that an exception escapes is marked FAIL.
C11_MarkFromExitCodeOnly ==
    Terminated =>
        /\ suiteExit = <<IF suitePc = "finished" THEN 0 ELSE 1>>
        /\ MarkOf(script, suiteExit[1]) =
               IF suitePc = "finished" THEN "PASS" ELSE "FAIL"

C11_Witness ==
    /\ script = "security"
    /\ suitePc = "finished"
    /\ AnyFailed(test_results)
    /\ MarkOf(script, suiteExit[1]) = "PASS"

\* the checks each test method (and pytest) is meant to record
ChecksOf(category) ==
    CASE category = "Authentication Testing" ->
           {"No Authentication", "Invalid Credentials"}
      [] category = "SSL/TLS Testing" ->
           {"SSL Connection", "Non-SSL Connection"}
      [] category = "Data Encryption Testing" ->
           {"Application-Level Encryption", "Password Hashing"}
      [] category = "NoSQL Injection Testing" ->
           {"Safe Query Execution", "NoSQL Injection Prevention",
            "Input Validation"}
      [] category = "Database Permissions Testing" ->
           {"Database Creation Permission", "Admin Operations Access"}
      [] category = "pytest" ->
           {FunctionalTests[i] : i \in 1..Len(FunctionalTests)}

\* C12: every check is a failure boundary of its own: whichever database
\* operation raises, each check of the test method still records a result
\* under its own name.
C12_EveryCheckRecordsItsResult ==
    \A i \in 1..Len(test_results) :
        \A name \in ChecksOf(test_results[i].test_category) :
            \E j \in 1..Len(test_results[i].test_cases) :
                test_results[i].test_cases[j].test = name

\* run_full_security_suite: the categories in the order they are run
SecurityCategories ==
    << "Authentication Testing", "SSL/TLS Testing", "Data Encryption Testing",
       "NoSQL Injection Testing", "Database Permissions Testing" >>

\* C17: when the SSL attempt raises, the SSL Connection check is recorded
\* as INFO (never FAIL), the Non-SSL check of the same method still runs,
\* and the suite goes on through its remaining categories.
C17_SslFailureIsInfo ==
    /\ \A i \in 1..Len(test_results) :
          test_results[i].test_category = "SSL/TLS Testing" =>
              LET cases == test_results[i].test_cases IN
              /\ Len(cases) = 2
              /\ cases[1].test = "SSL Connection"
              /\ cases[1].status = (IF cases[1].err THEN "INFO" ELSE "PASS")
              /\ cases[2].test = "Non-SSL Connection"
    /\ (script = "security" /\ suitePc \in {"report", "summary", "finished"}) =>
          [i \in 1..Len(test_results) |-> test_results[i].test_category]
              = SecurityCategories

C17_Witness ==
    /\ suitePc = "finished"
    /\ Len(test_results) = 5
    /\ test_results[2].test_cases[1].err
    /\ test_results[2].test_cases[1].status = "INFO"

\* =====================================================================
\* validate_user_input on its own, applied to arbitrary values.
\* =====================================================================
MaxStrLen == 3     \* longest string enumerated character by character

\* characters the enumerated strings are made of
Alphabet == {"a"} \cup Forbidden

\* c * n
Rep(c, n) == [i \in 1..n |-> c]

\* strings around the length cap: clean ones, and ones of the cap's length
\* that end in a rejected character
LongInputs ==
    {Str(Rep("a", n)) : n \in {LengthCap - 1, LengthCap, LengthCap + 1}}
    \cup {Str(Append(Rep("a", LengthCap - 1), c)) : c \in Forbidden}

\* values that are not str: dict, int, NoneType, list
NonStrings == {[type |-> ty, chars |-> <<>>] :
                 ty \in {"dict", "int", "NoneType", "list"}}

Inputs ==
    UNION {{Str(s) : s \in [1..n -> Alphabet]} : n \in 0..MaxStrLen}
    \cup LongInputs
    \cup NonStrings
    \cup {TestInputs[i] : i \in 1..Len(TestInputs)}

ValidatorInit ==
    /\ RunnerIdle
    /\ OffValidatorIdle
    /\ test_input \in Inputs
    /\ is_valid = <<>>

\* is_valid = validate_user_input(test_input)
Validate ==
    /\ is_valid = <<>>
    /\ is_valid' = <<ValidateUserInput(test_input)>>
    /\ UNCHANGED test_input
    /\ UNCHANGED <<runner, offValidator>>

ValidatorNext == Validate

ValidatorSpec == ValidatorInit /\ [][ValidatorNext]_vars

MaxUpdates == 3    \* longest list of updates

\* "balance" of original_doc
Balances == {0, 1000}

\* the "$inc" amounts of `updates`
Amounts == {-100, 50, -75}

\* the shipped instance
ShippedBalance == 1000

ShippedUpdates == <<-100, 50, -75>>

\* the "$push" entry that goes with an amount
Transaction(amount) ==
    [type |-> IF amount < 0 THEN "withdrawal" ELSE "deposit",
     amount |-> IF amount < 0 THEN -amount ELSE amount]

ApplyUpdate_Set(doc, amount) ==
    [balance |-> amount,
     transactions |-> Append(doc.transactions, Transaction(amount))]

\* update_one(filter, {"$inc": {"balance": amount}, "$push": {...}}) on the
\* matched document: both operators in one atomic write
ApplyUpdate(doc, amount) ==
    [balance |-> doc.balance + amount,
     transactions |-> Append(doc.transactions, Transaction(amount))]

RECURSIVE Sum(_)
Sum(s) == IF s = <<>> THEN 0 ELSE s[1] + Sum(Tail(s))

\* expected_balance = 1000 - 100 + 50 - 75: the initial balance and the
\* amounts of `updates`, added up
ExpectedBalance(doc, ups) == doc.balance + Sum(ups)

\* the literal the transaction count is compared with: len(updates)
ExpectedCount(ups) == Len(ups)

\* `if final_doc["balance"] == expected_balance and transaction_count == 3`
ConsistencyStatus(final_doc, expected_balance, expected_count) ==
    IF final_doc.balance = expected_balance
       /\ Len(final_doc.transactions) = expected_count
    THEN "PASS" ELSE "FAIL"

IntegrityInit ==
    /\ RunnerIdle
    /\ OffIntegrityIdle
    /\ \E v \in Balances : original_doc = <<[balance |-> v, transactions |-> <<>>]>>
    /\ updates \in UNION {[1..n -> Amounts] : n \in 0..MaxUpdates}
    /\ stored = <<>>
    /\ applied = 0
    /\ consistency = <<>>

\* collection.delete_many({}); collection.insert_one(original_doc)
InsertOriginal ==
    /\ stored = <<>>
    /\ consistency = <<>>
    /\ stored' = original_doc
    /\ UNCHANGED <<original_doc, updates, applied, consistency>>
    /\ UNCHANGED <<runner, offIntegrity>>

\* one turn of `for update in updates: collection.update_one(...)`
UpdateOne ==
    /\ stored # <<>>
    /\ applied < Len(updates)
    /\ stored' = <<ApplyUpdate(stored[1], updates[applied + 1])>>
    /\ applied' = applied + 1
    /\ UNCHANGED <<original_doc, updates, consistency>>
    /\ UNCHANGED <<runner, offIntegrity>>

\* find_one, then the comparison and the test_cases entry
VerifyConsistency ==
    /\ stored # <<>>
    /\ applied = Len(updates)
    /\ consistency = <<>>
    /\ consistency' = <<ConsistencyStatus(stored[1],
                            ExpectedBalance(original_doc[1], updates),
                            ExpectedCount(updates))>>
    /\ UNCHANGED <<original_doc, updates, stored, applied>>
    /\ UNCHANGED <<runner, offIntegrity>>

IntegrityNext ==
    \/ InsertOriginal
    \/ UpdateOne
    \/ VerifyConsistency

IntegritySpec == IntegrityInit /\ [][IntegrityNext]_vars

\* C14: from balance V and an empty history, once the deltas d1..dn have
\* been applied as sequential single-document updates the stored balance is
\* V + d1 + ... + dn and the history has n entries; the check records PASS
\* exactly when both hold, FAIL otherwise.  Shipped: 1000, -100, +50, -75
\* gives 875 and 3.
C14_BalanceAfterUpdates ==
    LET V == original_doc[1].balance
        BothHold == /\ stored[1].balance = V + Sum(updates)
                    /\ Len(stored[1].transactions) = Len(updates)
    IN /\ (stored # <<>> /\ applied = Len(updates)) => BothHold
       /\ consistency # <<>> =>
             consistency[1] = (IF BothHold THEN "PASS" ELSE "FAIL")
       /\ (consistency # <<>> /\ V = 1000 /\ updates = <<-100, 50, -75>>) =>
             /\ stored[1].balance = 875
             /\ Len(stored[1].transactions) = 3
             /\ consistency = <<"PASS">>

C14_Witness ==
    /\ original_doc[1].balance = ShippedBalance
    /\ updates = ShippedUpdates
    /\ applied = 3
    /\ stored[1].balance = 875
    /\ consistency = <<"PASS">>

\* =====================================================================
\* The rate computations of mongodb_performance_tests.py.  A measured
\* time is a difference of two time.time() readings, counted here in
\* clock ticks; a quotient is kept as numerator and denominator.
\* =====================================================================
MaxElapsed == 2    \* longest measured time, in ticks

\* what time.time() - start_time can be
Elapsed == 0..MaxElapsed

\* the five entries of `queries` in test_query_performance
NumQueries == 5

\* documents the single-insert loop writes: test_data[:100]
SingleInserts == 100

\* arguments the methods are called with: the ones of
\* run_full_performance_suite, and the empty loop
DocumentCounts == {1000}

IterationCounts == {0, 50}

ThreadCounts == {0, 5}

OperationCounts == {0, 50}

\* a / b in Python: ZeroDivisionError when b is 0
Div(a, b) == [raised |-> b = 0, num |-> a, den |-> b]

\* the int 0 of the `else 0` branches
Zero == [raised |-> FALSE, num |-> 0, den |-> 1]

IsZero(q) == ~q.raised /\ q.num = 0

\* `count / elapsed if elapsed > 0 else 0`
Rate(count, elapsed) == IF elapsed > 0 THEN Div(count, elapsed) ELSE Zero

\* avg_query_time = (end_time - start_time) / iterations
AvgQueryTime(elapsed, iterations) == Div(elapsed, iterations)

\* `1 / avg_query_time if avg_query_time > 0 else 0`, once avg_query_time
\* has been computed
QueriesPerSecond(avg) ==
    IF avg.num > 0 THEN Div(avg.den, avg.num) ELSE Zero

\* test_insert_performance: the result dict
InsertResult(document_count, single_insert_time, bulk_insert_time) ==
    [test_type |-> "insert_performance",
     elapsed |-> <<single_insert_time, bulk_insert_time>>,
     rates |-> << Rate(SingleInserts, single_insert_time),
                  Rate(document_count, bulk_insert_time) >>]

\* test_query_performance: the loop over `queries`; times[k] is what the
\* k-th query's iterations took.  The division of line 146 is evaluated
\* before anything is appended.
QueryResult(iterations, times) ==
    [test_type |-> "query_performance",
     elapsed |-> times,
     rates |-> [k \in 1..NumQueries |->
                  LET avg == AvgQueryTime(times[k], iterations)
                  IN IF avg.raised THEN avg ELSE QueriesPerSecond(avg)]]

\* test_concurrent_operations: operations_per_second of the result dict
ConcurrentResult(num_threads, operations_per_thread, total_time) ==
    [test_type |-> "concurrent_operations",
     num_threads |-> num_threads,
     operations_per_thread |-> operations_per_thread,
     total_operations |-> num_threads * operations_per_thread,
     elapsed |-> <<total_time>>,
     rates |-> <<Div(num_threads * operations_per_thread, total_time)>>]

\* evaluating the result raised ZeroDivisionError
Raises(result) == \E k \in 1..Len(result.rates) : result.rates[k].raised

\* no method of the tester catches anything: the exception ends the call
\* (and run_full_performance_suite, and the process) and nothing is appended
AfterCall(result, next) == IF Raises(result) THEN "raised" ELSE next

Appended(res, result) == IF Raises(result) THEN res ELSE Append(res, result)

\* perf_tester = MongoDBPerformanceTester(); cleanup()
PerfInit ==
    /\ RunnerIdle
    /\ OffPerfIdle
    /\ perfPc = "insert"
    /\ perf_results = <<>>

TestInsertPerformance ==
    /\ perfPc = "insert"
    /\ \E document_count \in DocumentCounts,
          single_insert_time \in Elapsed, bulk_insert_time \in Elapsed :
         LET result == InsertResult(document_count, single_insert_time,
                                    bulk_insert_time)
         IN /\ perf_results' = Appended(perf_results, result)
            /\ perfPc' = AfterCall(result, "query")
    /\ UNCHANGED <<runner, offPerf>>

TestQueryPerformance ==
    /\ perfPc = "query"
    /\ \E iterations \in IterationCounts, times \in [1..NumQueries -> Elapsed] :
         LET result == QueryResult(iterations, times)
         IN /\ perf_results' = Appended(perf_results, result)
            /\ perfPc' = AfterCall(result, "concurrent")
    /\ UNCHANGED <<runner, offPerf>>

TestConcurrentOperations ==
    /\ perfPc = "concurrent"
    /\ \E num_threads \in ThreadCounts, operations_per_thread \in OperationCounts,
          total_time \in Elapsed :
         LET result == ConcurrentResult(num_threads, operations_per_thread,
                                        total_time)
         IN /\ perf_results' = Appended(perf_results, result)
            /\ perfPc' = AfterCall(result, "aggregation")
    /\ UNCHANGED <<runner, offPerf>>

PerfNext ==
    \/ TestInsertPerformance
    \/ TestQueryPerformance
    \/ TestConcurrentOperations

PerfSpec == PerfInit /\ [][PerfNext]_vars

\* C15: every rate the performance suite computes is 0 when its measured
\* time is 0, and no performance check raises a division fault, whatever
\* the measured times and the iteration and worker counts.
C15_RatesNeverDivideByZero ==
    /\ perfPc # "raised"
    /\ \A i \in 1..Len(perf_results) :
          LET r == perf_results[i] IN
          \A k \in 1..Len(r.rates) :
              LET t == IF Len(r.elapsed) = Len(r.rates)
                       THEN r.elapsed[k] ELSE r.elapsed[1]
              IN t = 0 => IsZero(r.rates[k])

\* =====================================================================
\* One suite run twice, each time in a fresh process, against the same
\* MongoDB server.  A collection is [docs, unique, validator]: its
\* documents in insertion order, the fields under a unique index, and
\* whether a $jsonSchema validator is attached.  Documents carry the
\* fields the suites filter on, index or read back.
\* =====================================================================
NoCollection == [docs |-> <<>>, unique |-> {}, validator |-> FALSE]

\* name in db.list_collection_names()
Exists(d, c) == c \in DOMAIN d

Coll(d, c) == IF Exists(d, c) THEN d[c] ELSE NoCollection

\* collection.drop(): the documents and the indexes go
Drop(d, c) == [x \in DOMAIN d \ {c} |-> d[x]]

DeleteMany_Skipped(d, c) == d

\* collection.delete_many({}): the documents go, the collection and its
\* indexes stay
DeleteMany(d, c) ==
    IF Exists(d, c) THEN Put(d, c, [d[c] EXCEPT !.docs = <<>>]) ELSE d

\* collection.drop_indexes()
DropIndexes(d, c) ==
    IF Exists(d, c) THEN Put(d, c, [d[c] EXCEPT !.unique = {}]) ELSE d

\* collection.create_index(field, unique=True); creates the collection when
\* it is missing and changes nothing when the index is there already
CreateUniqueIndex(d, c, field) ==
    Put(d, c, [Coll(d, c) EXCEPT !.unique = @ \cup {field}])

\* db.create_collection(name, validator=schema); it raises
\* CollectionInvalid when the collection exists
CreateCollection(d, c) == Put(d, c, [NoCollection EXCEPT !.validator = TRUE])

\* the $jsonSchema of test_schema_validation: name, email and age are
\* required, the email matches the pattern, the age is within 0..150
SchemaAccepts(doc) ==
    /\ {"name", "email", "age"} \subseteq DOMAIN doc
    /\ doc.email.wellformed
    /\ doc.age \in 0..150

\* would insert_one(doc) be accepted: no DuplicateKeyError from a unique
\* index, no WriteError from the validator
CanInsert(d, c, doc) ==
    /\ \A f \in Coll(d, c).unique :
          \A i \in 1..Len(Coll(d, c).docs) :
              LET old == Coll(d, c).docs[i]
              IN (f \in DOMAIN old /\ f \in DOMAIN doc) => old[f] # doc[f]
    /\ Coll(d, c).validator => SchemaAccepts(doc)

InsertOne(d, c, doc) ==
    Put(d, c, [Coll(d, c) EXCEPT !.docs = Append(@, doc)])

\* insert_many of generated documents, kept as one batch of `n`
Batch(n) == [batch |-> n]

\* collection.count_documents({})
RECURSIVE CountDocuments(_)
CountDocuments(docs) ==
    IF docs = <<>> THEN 0
    ELSE (IF "batch" \in DOMAIN docs[1] THEN docs[1].batch ELSE 1)
         + CountDocuments(Tail(docs))

\* position of the document find_one / update_one({field: value}) picks:
\* the first match in insertion order, 0 when there is none
FirstMatch(docs, field, value) ==
    IF \E i \in 1..Len(docs) : field \in DOMAIN docs[i] /\ docs[i][field] = value
    THEN CHOOSE i \in 1..Len(docs) :
            /\ field \in DOMAIN docs[i] /\ docs[i][field] = value
            /\ \A j \in 1..(i - 1) :
                  ~(field \in DOMAIN docs[j] /\ docs[j][field] = value)
    ELSE 0

\* update_one({field: value}, {"$inc": {"balance": amount}})
IncBalance(d, c, field, value, amount) ==
    LET i == FirstMatch(Coll(d, c).docs, field, value)
    IN IF i = 0 THEN d
       ELSE Put(d, c, [Coll(d, c) EXCEPT !.docs[i].balance = @ + amount])

SetBalance_Inc(d, c, field, value, balance) ==
    IncBalance(d, c, field, value, balance)

\* update_one({field: value}, {"$set": {"balance": balance}})
SetBalance(d, c, field, value, balance) ==
    LET i == FirstMatch(Coll(d, c).docs, field, value)
    IN IF i = 0 THEN d
       ELSE Put(d, c, [Coll(d, c) EXCEPT !.docs[i].balance = balance])

\* find_one({field: value})["balance"]
BalanceOf(d, c, field, value) ==
    Coll(d, c).docs[FirstMatch(Coll(d, c).docs, field, value)].balance

\* what a test method hands back: the database as it leaves it and the
\* test_cases it recorded
Ran(d, cases) == [db |-> d, cases |-> cases]

\* --------------------------------------- mongodb_data_validation.py
\* cleanup(): the four collections of collections_to_drop
ValidationCleanup(d) ==
    Drop(Drop(Drop(Drop(d, "schema_test"), "integrity_test"),
              "validation_test"), "transaction_test")

Email(address, wellformed) == [address |-> address, wellformed |-> wellformed]

\* the four documents of test_schema_validation
ValidDoc ==
    [name |-> "John Doe", email |-> Email("john.doe@example.com", TRUE),
     age |-> 30, salary |-> 75000]

InvalidDocMissing ==
    [name |-> "Jane Doe", email |-> Email("jane@example.com", TRUE)]

InvalidDocEmail ==
    [name |-> "Bob Smith", email |-> Email("invalid-email-format", FALSE),
     age |-> 25]

InvalidDocAge ==
    [name |-> "Old Person", email |-> Email("old@example.com", TRUE),
     age |-> 200]

\* insert_one inside a try of its own: the document is stored when the
\* server takes it
TryInsert(d, c, doc) == IF CanInsert(d, c, doc) THEN InsertOne(d, c, doc) ELSE d

\* a check that expects the server to refuse the document
Rejection(test, accepted) ==
    Case(test, IF accepted THEN "FAIL" ELSE "PASS", ~accepted)

\* test_schema_validation
SchemaRun(d) ==
    LET c == "schema_test"
        d1 == IF Exists(d, c) THEN Drop(d, c) ELSE d
    IN IF Exists(d1, c)
       THEN Ran(d1, <<Case("Schema Validation Setup", "FAIL", TRUE)>>)
       ELSE LET d2 == CreateCollection(d1, c)
                ok1 == CanInsert(d2, c, ValidDoc)
                d3 == TryInsert(d2, c, ValidDoc)
                ok2 == CanInsert(d3, c, InvalidDocMissing)
                d4 == TryInsert(d3, c, InvalidDocMissing)
                ok3 == CanInsert(d4, c, InvalidDocEmail)
                d5 == TryInsert(d4, c, InvalidDocEmail)
                ok4 == CanInsert(d5, c, InvalidDocAge)
                d6 == TryInsert(d5, c, InvalidDocAge)
            IN Ran(d6,
                   << Case("Valid Document Insertion",
                           IF ok1 THEN "PASS" ELSE "FAIL", ~ok1),
                      Rejection("Missing Required Field Rejection", ok2),
                      Rejection("Invalid Email Format Rejection", ok3),
                      Rejection("Age Range Validation", ok4) >>)

\* original_doc of test_data_integrity
OriginalDoc == [balance |-> ShippedBalance, transactions |-> <<>>]

\* the loop over `updates`
RECURSIVE ApplyAll(_, _)
ApplyAll(doc, ups) ==
    IF ups = <<>> THEN doc ELSE ApplyAll(ApplyUpdate(doc, ups[1]), Tail(ups))

\* doc1 and doc2 of the duplicate-key check
Doc1 == [name |-> "User 1", email |-> "unique@example.com"]

Doc2 == [name |-> "User 2", email |-> "unique@example.com"]

\* type_test_docs: the declared type and the Python type `field` has when
\* it is read back
TypeTestDocs ==
    << [type |-> "string", field |-> "str"],
       [type |-> "integer", field |-> "int"],
       [type |-> "float", field |-> "float"],
       [type |-> "boolean", field |-> "bool"],
       [type |-> "datetime", field |-> "datetime"] >>

\* the isinstance chain of the type check; a bool is an int in Python
TypeMatches(doc) ==
    CASE doc.type = "string" -> doc.field = "str"
      [] doc.type = "integer" -> doc.field \in {"int", "bool"}
      [] doc.type = "float" -> doc.field = "float"
      [] doc.type = "boolean" -> doc.field = "bool"
      [] doc.type = "datetime" -> doc.field = "datetime"
      [] OTHER -> TRUE

RECURSIVE InsertMany(_, _, _)
InsertMany(d, c, docs) ==
    IF docs = <<>> THEN d
    ELSE InsertMany(InsertOne(d, c, docs[1]), c, Tail(docs))

\* test_data_integrity: one try around the three checks, an inner one
\* around the insert of the duplicate
IntegrityRun(d) ==
    LET c == "integrity_test"
        u == "unique_test"
        d1 == InsertOne(DeleteMany(d, c), c, OriginalDoc)
        at == Len(Coll(d1, c).docs)
        final == ApplyAll(Coll(d1, c).docs[at], ShippedUpdates)
        d2 == Put(d1, c, [Coll(d1, c) EXCEPT !.docs[at] = final])
        c1 == Case("Data Consistency After Updates",
                   ConsistencyStatus(final,
                       ExpectedBalance(OriginalDoc, ShippedUpdates),
                       ExpectedCount(ShippedUpdates)),
                   FALSE)
        d3 == CreateUniqueIndex(DeleteMany(d2, u), u, "email")
    IN IF ~CanInsert(d3, u, Doc1)
       THEN Ran(d3, <<c1, Case("Data Integrity Setup", "FAIL", TRUE)>>)
       ELSE LET d4 == InsertOne(d3, u, Doc1)
                c2 == Rejection("Unique Index Constraint", CanInsert(d4, u, Doc2))
                d5 == TryInsert(d4, u, Doc2)
                d6 == InsertMany(d5, c, TypeTestDocs)
                typed == {i \in 1..Len(Coll(d6, c).docs) :
                            "type" \in DOMAIN Coll(d6, c).docs[i]}
                c3 == Case("Data Type Consistency",
                           IF \A i \in typed : TypeMatches(Coll(d6, c).docs[i])
                           THEN "PASS" ELSE "FAIL",
                           FALSE)
            IN Ran(d6, <<c1, c2, c3>>)

\* test_transaction_handling
TransactionRun(d) ==
    LET a1 == "account1"
        a2 == "account2"
        d1 == DeleteMany(DeleteMany(d, a1), a2)
        d2 == InsertOne(InsertOne(d1, a1, [account_id |-> "ACC001", balance |-> 1000]),
                        a2, [account_id |-> "ACC002", balance |-> 500])
        before1 == BalanceOf(d2, a1, "account_id", "ACC001")
        before2 == BalanceOf(d2, a2, "account_id", "ACC002")
        d3 == IncBalance(IncBalance(d2, a1, "account_id", "ACC001", -200),
                         a2, "account_id", "ACC002", 200)
        c1 == Case("Multi-Collection Operation",
                   IF /\ BalanceOf(d3, a1, "account_id", "ACC001") = before1 - 200
                      /\ BalanceOf(d3, a2, "account_id", "ACC002") = before2 + 200
                   THEN "PASS" ELSE "FAIL",
                   FALSE)
        original_balance == BalanceOf(d3, a1, "account_id", "ACC001")
        d4 == IncBalance(d3, a1, "account_id", "ACC001", -5000)
        negative == BalanceOf(d4, a1, "account_id", "ACC001") < 0
        d5 == IF negative
              THEN SetBalance(d4, a1, "account_id", "ACC001", original_balance)
              ELSE d4
        c2 == Case("Business Rule Validation & Rollback",
                   IF negative THEN "PASS" ELSE "FAIL", FALSE)
    IN Ran(d5, <<c1, c2>>)

\* generate_test_data("validation_test", 1000)
GenerateTestData(d) ==
    InsertOne(DeleteMany(d, "validation_test"), "validation_test", Batch(1000))

\* --------------------------------------- mongodb_security_tests.py
\* the documents test_data_encryption stores
EncryptedDoc == [user_id |-> "test_user_001", encrypted_field |-> "fernet"]

HashedUserDoc == [username |-> "test_user", password_hash |-> "sha256"]

\* test_data_encryption: the operation that raises follows from what the
\* collection holds
EncryptionRun(d) ==
    LET c == "encryption_test"
        d1 == DeleteMany(d, c)
    IN IF ~CanInsert(d1, c, EncryptedDoc) THEN Ran(d1, EncryptionCases(2))
       ELSE LET d2 == InsertOne(d1, c, EncryptedDoc)
            IN IF ~CanInsert(d2, c, HashedUserDoc)
               THEN Ran(d2, EncryptionCases(4))
               ELSE Ran(DeleteMany(InsertOne(d2, c, HashedUserDoc), c),
                        EncryptionCases(0))

\* test_injection_attacks
InjectionRun(d) ==
    LET c == "injection_test"
        d1 == DeleteMany(d, c)
    IN IF \E i \in 1..Len(TestUsers) : ~CanInsert(d1, c, TestUsers[i])
       THEN Ran(d1, InjectionCasesOn(2, <<>>))
       ELSE LET d2 == InsertMany(d1, c, TestUsers)
            IN Ran(DeleteMany(d2, c), InjectionCasesOn(0, Coll(d2, c).docs))

\* test_database_permissions: insert_one into permission_test_db, then
\* drop_database
PermissionRun(d) ==
    LET c == "permission_test_db.test_collection"
        doc == [test |-> "permission_check"]
    IN IF ~CanInsert(d, c, doc) THEN Ran(d, PermissionCases("insert_one", FALSE))
       ELSE Ran(Drop(InsertOne(d, c, doc), c), PermissionCases("none", FALSE))

\* -------------------------------------- mongodb_performance_tests.py
\* cleanup(): the three collections of collections_to_drop
PerformanceCleanup(d) ==
    Drop(Drop(Drop(d, "load_test"), "stress_test"), "concurrent_test")

\* test_insert_performance(1000): drop, the single inserts, drop, the bulk
\* insert
InsertPerformanceRun(d) ==
    LET c == "load_test"
        d1 == InsertOne(Drop(d, c), c, Batch(SingleInserts))
    IN Ran(InsertOne(Drop(d1, c), c, Batch(1000)), <<>>)

\* test_query_performance and test_aggregation_performance fill load_test
\* when it is empty
EnsureData(d) ==
    IF CountDocuments(Coll(d, "load_test").docs) = 0
    THEN InsertOne(d, "load_test", Batch(10000)) ELSE d

\* how many of the workers' random.choice draws can be "insert": the
\* extremes of 5 threads times 50 operations
InsertDraws == {0, 250}

\* test_concurrent_operations(5, 50), `inserts` of whose operations drew
\* "insert"
ConcurrentRun(d, inserts) ==
    Ran(IF inserts = 0 THEN d
        ELSE InsertOne(d, "concurrent_test", Batch(inserts)), <<>>)

\* ------------------------------------------- mongodb_crud_tests.py
\* the collection a test class works on
CollectionOf(test) ==
    IF test \in {"test_connection_success", "test_connection_invalid_host",
                 "test_database_selection"} THEN None
    ELSE IF test \in {"test_create_single_field_index",
                      "test_create_compound_index",
                      "test_query_performance_with_index"}
    THEN "index_test_collection"
    ELSE "test_collection"

\* documents the body inserts
InsertedBy(test) ==
    CASE test = "test_create_single_document" -> 1
      [] test = "test_create_multiple_documents" -> 3
      [] test = "test_read_documents" -> 3
      [] test = "test_update_documents" -> 3
      [] test = "test_delete_documents" -> 3
      [] test = "test_query_performance_with_index" -> 1000
      [] OTHER -> 0

\* tests whose assertions count the documents of the whole collection
CountsCollection(test) ==
    test \in {"test_create_multiple_documents", "test_read_documents",
              "test_delete_documents"}

\* setup_method, the test body and teardown_method of one test
PytestRun(d, test) ==
    LET c == CollectionOf(test)
        indexed == c = "index_test_collection"
        d1 == IF c = None THEN d
              ELSE IF indexed THEN DropIndexes(DeleteMany(d, c), c)
              ELSE DeleteMany(d, c)
        d2 == IF InsertedBy(test) = 0 THEN d1
              ELSE InsertOne(d1, c, Batch(InsertedBy(test)))
        passed == CountsCollection(test) =>
                      CountDocuments(Coll(d2, c).docs) = InsertedBy(test)
        d3 == IF c = None THEN d2
              ELSE IF indexed THEN DeleteMany(DropIndexes(d2, c), c)
              ELSE DeleteMany(d2, c)
    IN Ran(d3, <<Case(test, IF passed THEN "PASSED" ELSE "FAILED", ~passed)>>)

\* ------------------------------------------------------- the two runs
\* the calls of run_full_*_suite (for pytest: the collected tests), in order
Methods(s) ==
    CASE s = "validation" ->
           << "cleanup", "test_schema_validation", "test_data_integrity",
              "test_transaction_handling", "generate_test_data" >>
      [] s = "security" ->
           << "test_authentication", "test_ssl_connection",
              "test_data_encryption", "test_injection_attacks",
              "test_database_permissions" >>
      [] s = "performance" ->
           << "cleanup", "test_insert_performance", "test_query_performance",
              "test_concurrent_operations", "test_aggregation_performance" >>
      [] s = "functional" -> FunctionalTests

\* the entry a method appends to the accumulator, None when it appends none
CategoryOf(s, m) ==
    CASE m = "test_schema_validation" -> "Schema Validation Testing"
      [] m = "test_data_integrity" -> "Data Integrity Testing"
      [] m = "test_transaction_handling" -> "Transaction Handling Testing"
      [] m = "test_authentication" -> "Authentication Testing"
      [] m = "test_ssl_connection" -> "SSL/TLS Testing"
      [] m = "test_data_encryption" -> "Data Encryption Testing"
      [] m = "test_injection_attacks" -> "NoSQL Injection Testing"
      [] m = "test_database_permissions" -> "Database Permissions Testing"
      [] m = "test_insert_performance" -> "insert_performance"
      [] m = "test_query_performance" /\ s = "performance" -> "query_performance"
      [] m = "test_concurrent_operations" -> "concurrent_operations"
      [] m = "test_aggregation_performance" -> "aggregation_performance"
      [] s = "functional" -> "pytest"
      [] OTHER -> None

\* what calling method m of script s does to the database and records
MethodRun(s, m, d, srv, inserts) ==
    CASE s = "functional" -> PytestRun(d, m)
      [] s = "validation" /\ m = "cleanup" -> Ran(ValidationCleanup(d), <<>>)
      [] m = "test_schema_validation" -> SchemaRun(d)
      [] m = "test_data_integrity" -> IntegrityRun(d)
      [] m = "test_transaction_handling" -> TransactionRun(d)
      [] m = "generate_test_data" -> Ran(GenerateTestData(d), <<>>)
      [] m = "test_authentication" ->
            Ran(d, AuthCases(FALSE, srv.rejects_invalid))
      [] m = "test_ssl_connection" -> Ran(d, SslCases(~srv.tls, FALSE))
      [] m = "test_data_encryption" -> EncryptionRun(d)
      [] m = "test_injection_attacks" -> InjectionRun(d)
      [] m = "test_database_permissions" -> PermissionRun(d)
      [] s = "performance" /\ m = "cleanup" -> Ran(PerformanceCleanup(d), <<>>)
      [] m = "test_insert_performance" -> InsertPerformanceRun(d)
      [] s = "performance" /\ m = "test_query_performance" ->
           Ran(EnsureData(d), <<>>)
      [] m = "test_concurrent_operations" -> ConcurrentRun(d, inserts)
      [] m = "test_aggregation_performance" -> Ran(EnsureData(d), <<>>)

\* position of method m in the script's order
MethodIndex(s, m) == CHOOSE i \in 1..Len(Methods(s)) : Methods(s)[i] = m

\* what follows method m
AfterMethod(s, m) ==
    IF MethodIndex(s, m) < Len(Methods(s)) THEN Methods(s)[MethodIndex(s, m) + 1]
    ELSE IF Prefix(s) = None THEN "finished" ELSE "report"

\* a method that assigned its result instead of appending it
Record_Replace(res, category, cases) ==
    IF category = None THEN res ELSE <<Category(category, cases)>>

\* the accumulator once `cases` under `category` are added: pytest keeps one
\* list of verdicts, the testers append one entry per method
Record(res, category, cases) ==
    IF category = None THEN res
    ELSE IF category = "pytest" /\ res # <<>>
    THEN <<Category("pytest", res[1].test_cases \o cases)>>
    ELSE Append(res, Category(category, cases))

\* names and statuses of what a run recorded, in order
Outline(res) ==
    [i \in 1..Len(res) |->
        [test_category |-> res[i].test_category,
         checks |-> [j \in 1..Len(res[i].test_cases) |->
                       <<res[i].test_cases[j].test, res[i].test_cases[j].status>>]]]

\* a clean database, a server set up one way or the other, and the first
\* process of the suite
RerunInit ==
    /\ RunnerIdle
    /\ OffRerunIdle
    /\ now = 0
    /\ reportsDir \in BOOLEAN
    /\ files = Empty
    /\ db = Empty
    /\ server \in [rejects_invalid : BOOLEAN, tls : BOOLEAN]
    /\ attempt = 1
    /\ firstRun = <<>>
    /\ script \in Suites
    /\ suitePc = Methods(script)[1]
    /\ test_results = <<>>
    /\ suiteExit = <<>>
    /\ pytestRet = <<>>

\* one call of run_full_*_suite, or one test of the pytest session
CallMethod ==
    /\ suitePc \notin {"idle", "report", "finished", "raised"}
    /\ \E inserts \in InsertDraws :
         LET ran == MethodRun(script, suitePc, db, server, inserts)
         IN /\ db' = ran.db
            /\ test_results' =
                   Record(test_results, CategoryOf(script, suitePc), ran.cases)
    /\ suitePc' = AfterMethod(script, suitePc)
    /\ pytestRet' = IF script = "functional" /\ suitePc' = "finished"
                    THEN <<PytestMain(test_results')>> ELSE pytestRet
    /\ suiteExit' = IF suitePc' = "finished"
                    THEN <<ProcessExit(FALSE, test_results')>> ELSE suiteExit
    /\ firstRun' = IF suitePc' = "finished" /\ attempt = 1
                   THEN <<Outline(test_results')>> ELSE firstRun
    /\ UNCHANGED <<script, server, attempt, now, reportsDir, files>>
    /\ UNCHANGED <<runner, offRerun>>

\* generate_*_report and the rest of __main__
WriteReport ==
    /\ suitePc = "report"
    /\ LET written == WritesReport(script, "ok", reportsDir)
       IN /\ suitePc' = IF written THEN "finished" ELSE "raised"
          /\ suiteExit' = <<ScriptCode(script, "ok", reportsDir)>>
          /\ reportsDir' = (reportsDir \/ MakesDir(script, "ok"))
          /\ files' = IF written
                      THEN WriteFile(files, <<Prefix(script), now>>, attempt)
                      ELSE files
    /\ firstRun' = IF attempt = 1 THEN <<Outline(test_results)>> ELSE firstRun
    /\ UNCHANGED <<script, test_results, pytestRet, db, server, attempt, now>>
    /\ UNCHANGED <<runner, offRerun>>

\* the same script again, in a fresh process, at once or a second later
Relaunch ==
    /\ suitePc \in {"finished", "raised"}
    /\ attempt = 1
    /\ attempt' = 2
    /\ suitePc' = Methods(script)[1]
    /\ test_results' = <<>>
    /\ suiteExit' = <<>>
    /\ pytestRet' = <<>>
    /\ now' \in now..MaxClock
    /\ UNCHANGED <<script, db, server, firstRun, reportsDir, files>>
    /\ UNCHANGED <<runner, offRerun>>

RerunNext ==
    \/ CallMethod
    \/ WriteReport
    \/ Relaunch

RerunSpec == RerunInit /\ [][RerunNext]_vars

ClaimedPrefix(s) ==
    CASE s = "functional" -> "functional_report"
      [] s = "performance" -> "performance_report"
      [] s = "security" -> "security_report"
      [] s = "validation" -> "validation_report"

\* C18: a suite executor that has run to completion has written, in this
\* run, a report file <category>_report_<timestamp>.json of its own into
\* the reports directory.
C18_CompletedRunWroteReport ==
    suitePc = "finished" =>
        /\ reportsDir
        /\ <<ClaimedPrefix(script), now>> \in DOMAIN files
        /\ files[<<ClaimedPrefix(script), now>>] = attempt

\* =====================================================================
\* report_generator.py on a reports directory.  In this part a file's
\* content is [keys, writer]: the top-level keys of the JSON object it
\* holds and who wrote it.  A file without a timestamp in its name is
\* <<name>>, one with a timestamp <<prefix, second>>.
\* =====================================================================
Content(keys, writer) == [keys |-> keys, writer |-> writer]

\* the keys of `results` and the fixed file name load_latest_results reads
\* each one from
CategoryKeys == {"crud", "performance", "security", "validation"}

FixedName(k) ==
    CASE k = "crud" -> "crud_test_results"
      [] k = "performance" -> "performance_test_results"
      [] k = "security" -> "security_test_results"
      [] k = "validation" -> "data_validation_results"

\* the top-level key generate_excel_report looks for in each category
ExpectedKeys(k) ==
    CASE k = "crud" -> {"test_results"}
      [] k = "performance" -> {"performance_results"}
      [] k = "security" -> {"security_results"}
      [] k = "validation" -> {"validation_results", "data_quality_results"}

\* what a file of a fixed name can hold: the keys the generator looks for,
\* or an object with other keys
FixedContents(k) ==
    {Content(ExpectedKeys(k), "other"), Content({"results"}, "other")}

\* the report a suite script writes (generate_*_report)
SuiteReport(s) ==
    Content(CASE s = "performance" -> {"test_summary", "results"}
              [] s = "security" -> {"security_test_summary", "test_results",
                                    "recommendations"}
              [] s = "validation" -> {"validation_test_summary", "test_results",
                                      "recommendations"},
            s)

\* the summary run_tests.py writes at second t
SummaryFile(t) ==
    Content({"test_execution_summary", "suite_results", "recommendations"}, t)

\* the results key a suite's report would have to be loaded under
KeyOfSuite(s) == IF s = "functional" THEN "crud" ELSE s

\* seconds of the test_summary_ files in the directory
SummarySeconds(fsFiles) ==
    {name[2] : name \in {n \in DOMAIN fsFiles : Len(n) = 2 /\ n[1] = "test_summary"}}

\* sorted(summary_files)[-1]: the timestamps have a fixed width, so the
\* last name in lexicographic order carries the greatest second
LatestSummary(fsFiles) ==
    CHOOSE t \in SummarySeconds(fsFiles) : \A u \in SummarySeconds(fsFiles) : u <= t

\* load_latest_results
LoadLatestResults(fsFiles) ==
    [k \in {c \in CategoryKeys : <<FixedName(c)>> \in DOMAIN fsFiles}
           \cup (IF SummarySeconds(fsFiles) = {} THEN {} ELSE {"summary"}) |->
        IF k = "summary" THEN fsFiles[<<"test_summary", LatestSummary(fsFiles)>>]
        ELSE fsFiles[<<FixedName(k)>>]]

\* the `{% if crud %}` ... `{% if validation %}` blocks of the template: a
\* section is rendered for a category that was loaded and is not empty
HtmlSections(res) == {k \in DOMAIN res \cap CategoryKeys : res[k].keys # {}}

\* the to_excel calls of generate_excel_report
ExcelSheets(res) ==
    (IF "summary" \in DOMAIN res THEN {"Summary"} ELSE {})
    \cup (IF "crud" \in DOMAIN res /\ "test_results" \in res["crud"].keys
          THEN {"CRUD Tests"} ELSE {})
    \cup (IF "performance" \in DOMAIN res
             /\ "performance_results" \in res["performance"].keys
          THEN {"Performance Tests"} ELSE {})
    \cup (IF "security" \in DOMAIN res
             /\ "security_results" \in res["security"].keys
          THEN {"Security Tests"} ELSE {})
    \cup (IF "validation" \in DOMAIN res
             /\ "validation_results" \in res["validation"].keys
          THEN {"Data Validation"} ELSE {})
    \cup (IF "validation" \in DOMAIN res
             /\ "data_quality_results" \in res["validation"].keys
          THEN {"Data Quality"} ELSE {})

\* leaving `with pd.ExcelWriter(path, engine="openpyxl")` saves the
\* workbook; openpyxl refuses to save one that has no sheet (IndexError:
\* At least one sheet must be visible)
ExcelSaves(sheetNames) == sheetNames # {}

\* directories the generator can find: any choice of fixed-name files and of
\* summary files
GenInit ==
    /\ RunnerIdle
    /\ OffGenIdle
    /\ now = MaxClock
    /\ \E present \in SUBSET CategoryKeys, seconds \in SUBSET (0..MaxClock) :
         \E held \in [present -> UNION {FixedContents(k) : k \in CategoryKeys}] :
            /\ \A k \in present : held[k] \in FixedContents(k)
            /\ files = [name \in {<<FixedName(k)>> : k \in present}
                                 \cup {<<"test_summary", t>> : t \in seconds} |->
                          IF Len(name) = 2 THEN SummaryFile(name[2])
                          ELSE held[CHOOSE k \in present : FixedName(k) = name[1]]]
    /\ reportsDir \in {files # Empty, TRUE}
    /\ genPc = "idle"
    /\ loaded = Empty
    /\ html_sections = <<>>
    /\ sheets = <<>>

\* a suite script run on its own reaches its generate_*_report
SuiteWritesReport ==
    /\ genPc = "idle"
    /\ \E s \in Suites :
         /\ WritesReport(s, "ok", reportsDir)
         /\ files' = WriteFile(files, <<Prefix(s), now>>, SuiteReport(s))
         /\ reportsDir' = TRUE
    /\ UNCHANGED <<now, genVars>>
    /\ UNCHANGED <<runner, offGen>>

\* generator = TestReportGenerator(): ensure_reports_dir
StartGenerator ==
    /\ genPc = "idle"
    /\ genPc' = "html"
    /\ reportsDir' = TRUE
    /\ UNCHANGED <<now, files, loaded, html_sections, sheets>>
    /\ UNCHANGED <<runner, offGen>>

\* generate_html_report: load, render, write mongodb_test_report_<ts>.html
GenerateHtmlReport ==
    /\ genPc = "html"
    /\ loaded' = LoadLatestResults(files)
    /\ html_sections' = <<HtmlSections(loaded')>>
    /\ files' = WriteFile(files, <<"mongodb_test_report.html", now>>,
                          Content(HtmlSections(loaded'), "report_generator"))
    /\ genPc' = "excel"
    /\ UNCHANGED <<now, reportsDir, sheets>>
    /\ UNCHANGED <<runner, offGen>>

\* generate_excel_report: load, write the sheets, save the workbook
GenerateExcelReport ==
    /\ genPc = "excel"
    /\ loaded' = LoadLatestResults(files)
    /\ IF ExcelSaves(ExcelSheets(loaded'))
       THEN /\ sheets' = <<ExcelSheets(loaded')>>
            /\ files' = WriteFile(files, <<"mongodb_test_report.xlsx", now>>,
                                  Content(ExcelSheets(loaded'), "report_generator"))
            /\ genPc' = "done"
       ELSE /\ genPc' = "raised"
            /\ UNCHANGED <<sheets, files>>
    /\ UNCHANGED <<now, reportsDir, html_sections>>
    /\ UNCHANGED <<runner, offGen>>

GenNext ==
    \/ SuiteWritesReport
    \/ StartGenerator
    \/ GenerateHtmlReport
    \/ GenerateExcelReport

GenSpec == GenInit /\ [][GenNext]_vars

\* C19: load_latest_results takes, for the summary and for each category,
\* the most recent file of that kind in the reports directory, so that a
\* report a suite executor has written is part of what the next report
\* generation loads.
C19_LoadsLatestOfEachKind ==
    genPc \in {"excel", "done", "raised"} =>
        /\ SummarySeconds(files) # {} =>
              loaded["summary"] = SummaryFile(LatestSummary(files))
        /\ \A s \in Suites : \A name \in DOMAIN files :
              (Len(name) = 2 /\ name[1] = Prefix(s)) =>
                  /\ KeyOfSuite(s) \in DOMAIN loaded
                  /\ loaded[KeyOfSuite(s)] = SuiteReport(s)

\* C20: report generation never raises for missing result files: whatever
\* subset of category and summary files is there, the HTML report and the
\* Excel report are both produced, with a section and a sheet for exactly
\* what was found.
C20_GenerationNeverRaises ==
    /\ genPc # "raised"
    /\ html_sections # <<>> => html_sections[1] \subseteq DOMAIN loaded
    /\ genPc = "done" => sheets # <<>>

\* =====================================================================
\* dashboard.py: the Flask application and the reports directory it reads
\* while the runner and the suite scripts write into it.  In this part a
\* file holds <<>> (opened for writing, nothing dumped yet: not JSON) or
\* <<object>>, the JSON object json.dump wrote.
\* =====================================================================
MaxReports == 3    \* files written into the reports directory

\* load order of load_latest_results and the startswith() prefix of each
DashOrder == <<"summary", "performance", "security", "validation">>

DashPrefix(k) == IF k = "summary" THEN "test_summary" ELSE Prefix(k)

\* the rules setup_routes registers
Routes == {"/", "/api/data"}

\* seconds in the names of the files os.listdir returns for a prefix
Stamps(fsFiles, k) ==
    {name[2] : name \in {n \in DOMAIN fsFiles : n[1] = DashPrefix(k)}}

\* sorted(files)[-1]: the names differ only in a fixed-width timestamp
Latest(fsFiles, k) ==
    <<DashPrefix(k),
      CHOOSE t \in Stamps(fsFiles, k) : \A u \in Stamps(fsFiles, k) : u <= t>>

\* the statement of the try block that raises first: 1 when os.listdir
\* finds no directory, i when json.load of the i-th category's file fails,
\* past the last one when nothing raises
Raised(dirExists, fsFiles) ==
    IF ~dirExists THEN 1
    ELSE LET bad == {i \in 1..Len(DashOrder) :
                        /\ Stamps(fsFiles, DashOrder[i]) # {}
                        /\ fsFiles[Latest(fsFiles, DashOrder[i])] = <<>>}
         IN IF bad = {} THEN Len(DashOrder) + 1
            ELSE CHOOSE i \in bad : \A j \in bad : i <= j

\* a try block around each category, which would go on after a bad file
DashLoad_PerCategory(dirExists, fsFiles) ==
    [k \in {DashOrder[i] : i \in {j \in 1..Len(DashOrder) :
                /\ dirExists
                /\ Stamps(fsFiles, DashOrder[j]) # {}
                /\ fsFiles[Latest(fsFiles, DashOrder[j])] # <<>>}} |->
        fsFiles[Latest(fsFiles, k)][1]]

\* TestDashboard.load_latest_results
DashLoad(dirExists, fsFiles) ==
    [k \in {DashOrder[i] : i \in {j \in 1..(Raised(dirExists, fsFiles) - 1) :
                                     Stamps(fsFiles, DashOrder[j]) # {}}} |->
        fsFiles[Latest(fsFiles, k)][1]]

\* what the application answers to GET <route>
Answer(route, dirExists, fsFiles) ==
    CASE route = "/" -> [route |-> route, status |-> 200, body |-> Empty]
      [] route = "/api/data" ->
            [route |-> route, status |-> 200,
             body |-> DashLoad(dirExists, fsFiles)]
      [] OTHER -> [route |-> route, status |-> 404, body |-> Empty]

DashInit ==
    /\ RunnerIdle
    /\ OffDashIdle
    /\ now = 0
    /\ reportsDir \in BOOLEAN
    /\ files = Empty
    /\ returned = <<>>

\* a second passes
DashTick ==
    /\ now < MaxClock
    /\ now' = now + 1
    /\ returned' = <<>>
    /\ UNCHANGED <<reportsDir, files>>
    /\ UNCHANGED <<runner, offDash>>

\* `with open(report_filename, "w") as f:` in the runner or a suite script:
\* the file exists and is empty.  The performance script opens it in the
\* directory it finds, the others make the directory first.
OpenReport ==
    /\ \E k \in {DashOrder[i] : i \in 1..Len(DashOrder)} :
         /\ k = "performance" => reportsDir
         /\ <<DashPrefix(k), now>> \in DOMAIN files
               \/ Cardinality(DOMAIN files) < MaxReports
         /\ files' = WriteFile(files, <<DashPrefix(k), now>>, <<>>)
    /\ reportsDir' = TRUE
    /\ returned' = <<>>
    /\ UNCHANGED now
    /\ UNCHANGED <<runner, offDash>>

\* json.dump(report, f) and the end of the `with` block
DumpReport ==
    /\ \E name \in DOMAIN files :
         /\ files[name] = <<>>
         /\ files' = WriteFile(files, name,
                               <<[prefix |-> name[1], written |-> name[2]]>>)
    /\ returned' = <<>>
    /\ UNCHANGED <<now, reportsDir>>
    /\ UNCHANGED <<runner, offDash>>

\* the application serves one GET request
Request ==
    /\ \E route \in Routes \cup {"/reports"} :
         returned' = <<Answer(route, reportsDir, files)>>
    /\ UNCHANGED <<now, reportsDir, files>>
    /\ UNCHANGED <<runner, offDash>>

DashNext ==
    \/ DashTick
    \/ OpenReport
    \/ DumpReport
    \/ Request

DashSpec == DashInit /\ [][DashNext]_vars

\* C21: the dashboard answers on exactly two routes, and the data route
\* reads the directory anew on every request: for every category whose
\* file with the greatest name holds a report at the time of the request,
\* the answer carries that report, so one written since the request before
\* is in it.
C21_DataRouteReturnsLatest ==
    returned # <<>> =>
        /\ returned[1].status = 200 <=> returned[1].route \in Routes
        /\ returned[1].route = "/api/data" =>
              \A i \in 1..Len(DashOrder) :
                 LET k == DashOrder[i]
                 IN (Stamps(files, k) # {} /\ files[Latest(files, k)] # <<>>) =>
                       /\ k \in DOMAIN returned[1].body
                       /\ returned[1].body[k] = files[Latest(files, k)][1]

\* the latest file of the i-th category cannot be loaded
BadAt(i) ==
    /\ Stamps(files, DashOrder[i]) # {}
    /\ files[Latest(files, DashOrder[i])] = <<>>

\* C26: load_latest_results never raises.  The data route always answers,
\* and its answer holds exactly the categories that have a file and come,
\* in the order summary, performance, security, validation, before the
\* first failure (no directory, or a latest file that is not JSON), each
\* with the report of its latest file.
C26_LoadReturnsWhatPrecedesTheError ==
    (returned # <<>> /\ returned[1].route = "/api/data") =>
        /\ returned[1].status = 200
        /\ \A i \in 1..Len(DashOrder) :
              LET k == DashOrder[i]
              IN /\ k \in DOMAIN returned[1].body <=>
                       /\ reportsDir
                       /\ Stamps(files, k) # {}
                       /\ \A j \in 1..i : ~BadAt(j)
                 /\ k \in DOMAIN returned[1].body =>
                       returned[1].body[k] = files[Latest(files, k)][1]

\* a bad security file: the performance report before it is in the answer,
\* the validation report after it is not
C26_Witness ==
    /\ returned # <<>>
    /\ returned[1].route = "/api/data"
    /\ BadAt(3)
    /\ DOMAIN returned[1].body = {"performance"}
    /\ Stamps(files, "validation") # {}
    /\ files[Latest(files, "validation")] # <<>>

\* =====================================================================
\* test_concurrent_operations, thread by thread.  Thread ids are 1..n
\* here (range(num_threads) in the source).  A worker's thread_results is
\* kept as the number of entries it holds; the documents the workers write
\* go to the server, not to the process.
\* =====================================================================
MaxThreads == 2    \* largest num_threads
MaxOps == 2        \* largest operations_per_thread

\* the function is entered: threads = [], start_time = time.time()
ConcInit ==
    /\ RunnerIdle
    /\ OffConcIdle
    /\ perfPc = "start"
    /\ perf_results = <<>>
    /\ \E n \in 0..MaxThreads, o \in 0..MaxOps :
         conc = [num_threads |-> n, operations_per_thread |-> o, next |-> 1]
    /\ workers = <<>>

\* one pass of `for i in range(num_threads)`: Thread(...), append, start()
StartThread ==
    /\ perfPc = "start"
    /\ conc.next <= conc.num_threads
    /\ workers' = Append(workers, [pc |-> "run", thread_results |-> 0])
    /\ conc' = [conc EXCEPT !.next = @ + 1]
    /\ UNCHANGED <<perfPc, perf_results>>
    /\ UNCHANGED <<runner, offConc>>

\* the start loop is over
StartedAll ==
    /\ perfPc = "start"
    /\ conc.next > conc.num_threads
    /\ perfPc' = "join"
    /\ conc' = [conc EXCEPT !.next = 1]
    /\ UNCHANGED <<workers, perf_results>>
    /\ UNCHANGED <<runner, offConc>>

\* one pass of the worker's loop: an operation on the collection, then
\* thread_results.append(...)
WorkerStep ==
    /\ \E id \in 1..Len(workers) :
         /\ workers[id].pc = "run"
         /\ workers[id].thread_results < conc.operations_per_thread
         /\ workers' = [workers EXCEPT ![id].thread_results = @ + 1]
    /\ UNCHANGED <<conc, perfPc, perf_results>>
    /\ UNCHANGED <<runner, offConc>>

\* `return thread_results`: the thread ends
WorkerReturn ==
    /\ \E id \in 1..Len(workers) :
         /\ workers[id].pc = "run"
         /\ workers[id].thread_results = conc.operations_per_thread
         /\ workers' = [workers EXCEPT ![id].pc = "done"]
    /\ UNCHANGED <<conc, perfPc, perf_results>>
    /\ UNCHANGED <<runner, offConc>>

\* thread.join() returns once that thread has ended
JoinThread ==
    /\ perfPc = "join"
    /\ conc.next <= conc.num_threads
    /\ workers[conc.next].pc = "done"
    /\ conc' = [conc EXCEPT !.next = @ + 1]
    /\ UNCHANGED <<workers, perfPc, perf_results>>
    /\ UNCHANGED <<runner, offConc>>

\* total_time = time.time() - start_time; result = {...};
\* self.results.append(result)
AppendConcurrentResult ==
    /\ perfPc = "join"
    /\ conc.next > conc.num_threads
    /\ \E total_time \in Elapsed :
         LET result == ConcurrentResult(conc.num_threads,
                                        conc.operations_per_thread, total_time)
         IN /\ perf_results' = Appended(perf_results, result)
            /\ perfPc' = AfterCall(result, "aggregation")
    /\ UNCHANGED <<conc, workers>>
    /\ UNCHANGED <<runner, offConc>>

ConcNext ==
    \/ StartThread
    \/ StartedAll
    \/ WorkerStep
    \/ WorkerReturn
    \/ JoinThread
    \/ AppendConcurrentResult

ConcSpec == ConcInit /\ [][ConcNext]_vars

\* every thread was started, ran all its operations and has ended
AllJoined ==
    /\ Len(workers) = conc.num_threads
    /\ \A id \in 1..Len(workers) :
          /\ workers[id].pc = "done"
          /\ workers[id].thread_results = conc.operations_per_thread

\* C22: in the concurrent-operations check a step of a worker changes
\* nothing but that worker's own result list, the main thread appends the
\* check's result only after every worker has been joined, and whatever the
\* interleaving the call ends with exactly one result appended, whose
\* total_operations is num_threads * operations_per_thread.
C22_OneResultAfterAllJoined ==
    /\ [][/\ workers' # workers =>
                /\ perf_results' = perf_results
                /\ \A id \in 1..Len(workers) :
                      workers'[id] # workers[id] =>
                         \A other \in (1..Len(workers)) \ {id} :
                            workers'[other] = workers[other]
          /\ perf_results' # perf_results => AllJoined]_vars
    /\ [](perfPc \notin {"start", "join"} =>
             /\ perfPc = "aggregation"
             /\ Len(perf_results) = 1
             /\ perf_results[1].total_operations =
                   conc.num_threads * conc.operations_per_thread)

\* =====================================================================
\* MongoDBTester of mongodb_crud_tests.py: connect and disconnect, called
\* in any order on one tester while the server comes and goes.
\* =====================================================================
MaxCalls == 3      \* calls made on one tester

\* the default connection string, the one of test_connection_invalid_host,
\* and one MongoClient cannot parse
ConnectionStrings ==
    {"mongodb://localhost:27017/", "mongodb://invalid-host:27017/",
     "mongodb://localhost:port/"}

\* the exception the try block of connect raises, or None: MongoClient()
\* rejects a string it cannot parse, and the ismaster command fails after
\* serverSelectionTimeoutMS when no server is found at the address
ConnectFault(connection_string, up) ==
    IF connection_string = "mongodb://localhost:port/" THEN "InvalidURI"
    ELSE IF connection_string = "mongodb://localhost:27017/" /\ up THEN None
    ELSE "ServerSelectionTimeoutError"

\* an except clause for connection failures only
Caught_ConnectionFailure(exc) == exc = "ServerSelectionTimeoutError"

\* `except Exception`: both are subclasses of Exception
Caught(exc) == exc \in {"InvalidURI", "ServerSelectionTimeoutError"}

\* the tester after connect(): self.client is assigned unless MongoClient()
\* raised, self.db only after the command succeeded
Connected(t, exc) ==
    [t EXCEPT !.client = IF exc = "InvalidURI" THEN @ ELSE "open",
              !.db = IF exc = None THEN t.database_name ELSE @]

\* tester = MongoDBTester(connection_string, database_name)
ConnInit ==
    /\ RunnerIdle
    /\ OffConnIdle
    /\ \E connection_string \in ConnectionStrings,
          database_name \in {"test_db", "qa_db"} :
         tester = [connection_string |-> connection_string,
                   database_name |-> database_name,
                   client |-> None, db |-> None]
    /\ reachable \in BOOLEAN
    /\ ret = <<>>
    /\ calls = 0

\* the server is started or stopped
ServerFlip ==
    /\ reachable' = ~reachable
    /\ UNCHANGED <<tester, ret, calls>>
    /\ UNCHANGED <<runner, offConn>>

\* tester.connect()
Connect ==
    /\ calls < MaxCalls
    /\ calls' = calls + 1
    /\ LET exc == ConnectFault(tester.connection_string, reachable)
       IN /\ tester' = Connected(tester, exc)
          /\ ret' = <<[call |-> "connect",
                       raised |-> exc # None /\ ~Caught(exc),
                       value |-> exc = None]>>
    /\ UNCHANGED reachable
    /\ UNCHANGED <<runner, offConn>>

\* tester.disconnect(): `if self.client: self.client.close()`
Disconnect ==
    /\ calls < MaxCalls
    /\ calls' = calls + 1
    /\ tester' = [tester EXCEPT !.client = IF @ = None THEN @ ELSE "closed"]
    /\ ret' = <<[call |-> "disconnect", raised |-> FALSE, value |-> FALSE]>>
    /\ UNCHANGED reachable
    /\ UNCHANGED <<runner, offConn>>

ConnNext ==
    \/ ServerFlip
    \/ Connect
    \/ Disconnect

ConnSpec == ConnInit /\ [][ConnNext]_vars

\* the server at the tester's address answers the ping
Answers ==
    tester.connection_string = "mongodb://localhost:27017/" /\ reachable

\* C23: connect never raises.  It returns True and sets db when the server
\* answers the ping; when it does not, it returns False and does not set
\* db.  A disconnect after either does not raise.
C23_ConnectNeverRaises ==
    /\ [](ret # <<>> => ~ret[1].raised)
    /\ [][(calls' # calls /\ ret'[1].call = "connect") =>
             IF Answers
             THEN ret'[1].value /\ tester'.db = tester.database_name
             ELSE ~ret'[1].value /\ tester'.db = tester.db]_vars

\* a disconnect that followed a connect to the unreachable host
C23_Witness ==
    /\ ret # <<>>
    /\ ret[1].call = "disconnect"
    /\ tester.connection_string = "mongodb://invalid-host:27017/"
    /\ tester.client = "closed"
    /\ tester.db = None

\* =====================================================================
\* Further properties of the runner (specification Spec).
\* =====================================================================
\* entries of the summary's suite_results that carry this mark
Marked(mark) == {k \in SuiteKeys : report[1].suite_results[k] = mark}

\* C24: in every summary the per-suite map agrees with the counters: as
\* many PASS entries as passed_suites, as many FAIL entries as
\* failed_suites, and overall_status PASS exactly when no entry is FAIL,
\* also when a single suite was selected.
C24_MapAgreesWithCounters ==
    report # <<>> =>
        /\ Cardinality(Marked("PASS")) = report[1].passed_suites
        /\ Cardinality(Marked("FAIL")) = report[1].failed_suites
        /\ report[1].overall_status = "PASS" <=> Marked("FAIL") = {}

\* C25: run_command never raises.  A suite that could not be spawned has
\* return_code -1 and success False, any other has success True exactly
\* when its return code is 0; the runner goes on after a failed spawn and
\* its summary lists that suite as failed.
C25_RunCommandNeverRaises ==
    /\ [](\A s \in DOMAIN rc :
             /\ s \in DOMAIN results
             /\ results[s] <=> rc[s] = 0
             /\ rc[s] = -1 => ~results[s])
    /\ [](report # <<>> =>
             \A k \in SuiteKeys :
                (ResultKey(k) \in DOMAIN rc /\ rc[ResultKey(k)] = -1) =>
                    report[1].suite_results[k] = "FAIL")
    /\ [][\A s \in Suites :
             (s \notin DOMAIN rc /\ s \in DOMAIN rc' /\ rc'[s] = -1) =>
                 /\ pc' = "suites"
                 /\ exitCode' = exitCode
                 /\ inflight' = inflight]_vars

\* a summary written after the security suite could not be spawned and the
\* suite before it had exited 0
C25_Witness ==
    /\ report # <<>>
    /\ "security" \in DOMAIN rc
    /\ rc["security"] = -1
    /\ report[1].suite_results["security_tests"] = "FAIL"
    /\ "performance" \in DOMAIN rc
    /\ rc["performance"] = 0
    /\ report[1].suite_results["performance_tests"] = "PASS"

\* =====================================================================
\* run_full_security_suite / run_full_validation_suite called twice on one
\* tester object.  The report dict holds self.test_results itself, so of a
\* returned report only total_categories is kept here.
\* =====================================================================
\* tester = MongoDBSecurityTester() or MongoDBDataValidator(), and the
\* first call of run_full_*_suite
AccInit ==
    /\ RunnerIdle
    /\ OffAccIdle
    /\ now = 0
    /\ reportsDir \in BOOLEAN
    /\ files = Empty
    /\ db = Empty
    /\ server \in [rejects_invalid : BOOLEAN, tls : BOOLEAN]
    /\ attempt = 1
    /\ firstRun = <<>>
    /\ script \in {"security", "validation"}
    /\ suitePc = Methods(script)[1]
    /\ test_results = <<>>
    /\ suiteExit = <<>>
    /\ pytestRet = <<>>
    /\ suite_report = <<>>

\* generate_security_report / generate_validation_report, and the return
\* of run_full_*_suite
ReturnReport ==
    /\ suitePc = "report"
    /\ suite_report' = <<[total_categories |-> Len(test_results)]>>
    /\ reportsDir' = TRUE
    /\ files' = WriteFile(files, <<Prefix(script), now>>, attempt)
    /\ suitePc' = "finished"
    /\ firstRun' = IF attempt = 1 THEN <<Outline(test_results)>> ELSE firstRun
    /\ UNCHANGED <<script, test_results, suiteExit, pytestRet, db, server,
                   attempt, now>>
    /\ UNCHANGED <<runner, offAcc>>

\* run_full_*_suite is called on the same object once more
CallAgain ==
    /\ suitePc = "finished"
    /\ attempt = 1
    /\ attempt' = 2
    /\ suitePc' = Methods(script)[1]
    /\ now' \in now..MaxClock
    /\ UNCHANGED <<script, test_results, suiteExit, pytestRet, db, server,
                   firstRun, reportsDir, files, suite_report>>
    /\ UNCHANGED <<runner, offAcc>>

AccNext ==
    \/ CallMethod
    \/ ReturnReport
    \/ CallAgain

AccSpec == AccInit /\ [][AccNext]_vars

\* the test_* methods of the two testers
TestMethods ==
    {"test_authentication", "test_ssl_connection", "test_data_encryption",
     "test_injection_attacks", "test_database_permissions",
     "test_schema_validation", "test_data_integrity",
     "test_transaction_handling"}

\* the categories of the security suite, in the order the claim gives
ClaimedCategories ==
    <<"Authentication Testing", "SSL/TLS Testing", "Data Encryption Testing",
      "NoSQL Injection Testing", "Database Permissions Testing">>

\* C27: the accumulators only grow.  A test_* method of the security or the
\* validation tester appends exactly one entry to test_results and no step
\* changes or removes an earlier entry; after one run_full_security_suite
\* the report holds the five categories Authentication, SSL/TLS, Data
\* Encryption, NoSQL Injection, Database Permissions in that order;
\* total_categories is the length of test_results; and a second call on the
\* same object appends a second set to the first.
C27_AccumulatorsOnlyGrow ==
    /\ [][/\ Len(test_results') >= Len(test_results)
          /\ SubSeq(test_results', 1, Len(test_results)) = test_results
          /\ (suitePc' # suitePc /\ suitePc \in TestMethods) =>
                Len(test_results') = Len(test_results) + 1
          /\ (suitePc' # suitePc /\ suitePc \notin TestMethods) =>
                test_results' = test_results]_vars
    /\ []((suitePc = "finished" /\ script = "security" /\ attempt = 1) =>
             [i \in 1..Len(test_results) |-> test_results[i].test_category]
                = ClaimedCategories)
    /\ [](suitePc = "finished" =>
             /\ suite_report[1].total_categories = Len(test_results)
             /\ attempt = 2 =>
                   /\ Len(test_results) = 2 * Len(firstRun[1])
                   /\ Outline(SubSeq(test_results, 1, Len(firstRun[1])))
                         = firstRun[1])

\* the second run_full_security_suite has returned: ten entries
C27_Witness ==
    /\ suitePc = "finished"
    /\ script = "security"
    /\ attempt = 2
    /\ suite_report[1].total_categories = 10
    /\ test_results[6].test_category = "Authentication Testing"

\* =====================================================================
\* test_transaction_handling of mongodb_data_validation.py, one database
\* operation at a time.  Every operation is a write or a read of its own:
\* the server is a single instance and no session is opened.
\* =====================================================================
\* what account1 and account2 can hold when the check begins: nothing, or
\* the document an earlier run left (complete, or cut off after the debit)
LeftInAccount1 ==
    {<<>>} \cup {<<[account_id |-> "ACC001", balance |-> b]>> :
                    b \in {-4200, 800, 1000}}

LeftInAccount2 ==
    {<<>>} \cup {<<[account_id |-> "ACC002", balance |-> b]>> :
                    b \in {500, 700}}

\* balance of ACC001, of ACC002
Balance1 == BalanceOf(db, "account1", "account_id", "ACC001")

Balance2 == BalanceOf(db, "account2", "account_id", "ACC002")

TxInit ==
    /\ RunnerIdle
    /\ OffTxIdle
    /\ \E docs1 \in LeftInAccount1, docs2 \in LeftInAccount2 :
          \E present \in SUBSET {"account1", "account2"} :
              db = [c \in present |->
                       [NoCollection EXCEPT
                           !.docs = IF c = "account1" THEN docs1 ELSE docs2]]
    /\ server = [rejects_invalid |-> FALSE, tls |-> FALSE]
    /\ attempt = 0
    /\ firstRun = <<>>
    /\ txPc = "delete_many"
    /\ locals = Empty
    /\ test_cases = <<>>
    /\ seen = {}

\* collection1.delete_many({}); collection2.delete_many({})
DeleteAccounts ==
    /\ txPc = "delete_many"
    /\ db' = DeleteMany(DeleteMany(db, "account1"), "account2")
    /\ txPc' = "insert_one"
    /\ UNCHANGED <<locals, test_cases, server, attempt, firstRun>>
    /\ UNCHANGED <<seen, runner, offTx>>

\* the two insert_one calls
InsertAccounts ==
    /\ txPc = "insert_one"
    /\ db' = InsertOne(InsertOne(db, "account1",
                                 [account_id |-> "ACC001", balance |-> 1000]),
                       "account2", [account_id |-> "ACC002", balance |-> 500])
    /\ txPc' = "find_before"
    /\ UNCHANGED <<locals, test_cases, server, attempt, firstRun>>
    /\ UNCHANGED <<seen, runner, offTx>>

\* account1_before, account2_before = find_one(...), find_one(...)
FindBefore ==
    /\ txPc = "find_before"
    /\ locals' = Put(Put(locals, "account1_before", Balance1),
                     "account2_before", Balance2)
    /\ txPc' = "debit"
    /\ UNCHANGED <<db, test_cases, server, attempt, firstRun>>
    /\ UNCHANGED <<seen, runner, offTx>>

\* update_one on account1: "$inc" by -transfer_amount
Debit ==
    /\ txPc = "debit"
    /\ db' = IncBalance(db, "account1", "account_id", "ACC001", -200)
    /\ txPc' = "credit"
    /\ UNCHANGED <<locals, test_cases, server, attempt, firstRun>>
    /\ UNCHANGED <<seen, runner, offTx>>

\* update_one on account2: "$inc" by transfer_amount
Credit ==
    /\ txPc = "credit"
    /\ db' = IncBalance(db, "account2", "account_id", "ACC002", 200)
    /\ txPc' = "verify"
    /\ UNCHANGED <<locals, test_cases, server, attempt, firstRun>>
    /\ UNCHANGED <<seen, runner, offTx>>

\* the two find_one calls after the transfer, the comparison with the
\* expected balances and the "Multi-Collection Operation" entry
VerifyTransfer ==
    /\ txPc = "verify"
    /\ test_cases' =
          Append(test_cases,
                 Case("Multi-Collection Operation",
                      IF /\ Balance1 = locals["account1_before"] - 200
                         /\ Balance2 = locals["account2_before"] + 200
                      THEN "PASS" ELSE "FAIL",
                      FALSE))
    /\ txPc' = "find_original"
    /\ UNCHANGED <<db, locals, server, attempt, firstRun>>
    /\ UNCHANGED <<seen, runner, offTx>>

\* original_balance = find_one(...)["balance"]
FindOriginal ==
    /\ txPc = "find_original"
    /\ locals' = Put(locals, "original_balance", Balance1)
    /\ txPc' = "overdraw"
    /\ UNCHANGED <<db, test_cases, server, attempt, firstRun>>
    /\ UNCHANGED <<seen, runner, offTx>>

\* update_one on account1: "$inc" by -5000
Overdraw ==
    /\ txPc = "overdraw"
    /\ db' = IncBalance(db, "account1", "account_id", "ACC001", -5000)
    /\ txPc' = "find_updated"
    /\ UNCHANGED <<locals, test_cases, server, attempt, firstRun>>
    /\ UNCHANGED <<seen, runner, offTx>>

\* updated_doc = find_one(...), and `if updated_doc["balance"] < 0`
FindUpdated ==
    /\ txPc = "find_updated"
    /\ locals' = Put(locals, "updated_doc", Balance1)
    /\ IF Balance1 < 0
       THEN /\ txPc' = "rollback"
            /\ test_cases' = test_cases
       ELSE /\ txPc' = "done"
            /\ test_cases' =
                  Append(test_cases,
                         Case("Business Rule Validation & Rollback", "FAIL",
                              FALSE))
    /\ UNCHANGED <<db, server, attempt, firstRun>>
    /\ UNCHANGED <<seen, runner, offTx>>

\* update_one on account1: "$set" to original_balance, and the PASS entry
Rollback ==
    /\ txPc = "rollback"
    /\ db' = SetBalance(db, "account1", "account_id", "ACC001",
                        locals["original_balance"])
    /\ test_cases' =
          Append(test_cases,
                 Case("Business Rule Validation & Rollback", "PASS", FALSE))
    /\ txPc' = "done"
    /\ UNCHANGED <<locals, server, attempt, firstRun>>
    /\ UNCHANGED <<seen, runner, offTx>>

\* another client reads the two balances while the check runs
ReadBalances ==
    /\ txPc # "done"
    /\ FirstMatch(Coll(db, "account1").docs, "account_id", "ACC001") # 0
    /\ FirstMatch(Coll(db, "account2").docs, "account_id", "ACC002") # 0
    /\ seen' = seen \cup {<<Balance1, Balance2>>}
    /\ UNCHANGED <<txPc, locals, test_cases, dbVars>>
    /\ UNCHANGED <<runner, offTx>>

TxNext ==
    \/ DeleteAccounts
    \/ InsertAccounts
    \/ FindBefore
    \/ Debit
    \/ Credit
    \/ VerifyTransfer
    \/ FindOriginal
    \/ Overdraw
    \/ FindUpdated
    \/ Rollback
    \/ ReadBalances

TxSpec == TxInit /\ [][TxNext]_vars

\* no document of account1 or account2 has a negative balance
NoNegativeBalance ==
    \A c \in {"account1", "account2"} :
        \A i \in 1..Len(Coll(db, c).docs) : Coll(db, c).docs[i].balance >= 0

\* C28: in the transaction check the transfer of 200 preserves the sum of
\* the two balances once both updates are applied (1000 + 500 = 800 + 700);
\* the compensating update puts ACC001 back to exactly its balance before
\* the debit of 5000, so at the end of the check no balance is negative;
\* between the debit and the compensation the balance of ACC001 is
\* negative for any reader of the database.
C28_TransferAndCompensation ==
    /\ [](txPc \in {"verify", "find_original", "overdraw"} =>
             /\ Balance1 = 800
             /\ Balance2 = 700
             /\ Balance1 + Balance2
                   = locals["account1_before"] + locals["account2_before"]
             /\ locals["account1_before"] = 1000
             /\ locals["account2_before"] = 500)
    /\ [][(txPc = "overdraw" /\ txPc' # txPc) =>
             Balance1' = Balance1 - 5000]_vars
    /\ [][(txPc = "rollback" /\ txPc' # txPc) =>
             /\ Balance1' = 800
             /\ Balance1' = Balance1 + 5000]_vars
    /\ [](txPc \in {"find_updated", "rollback"} => Balance1 < 0)
    /\ [](txPc = "done" =>
             /\ NoNegativeBalance
             /\ Balance1 + Balance2 = 1500
             /\ test_cases[2].status = "PASS")

\* the debit of 5000 is applied and the compensation is not yet
C28_Witness ==
    /\ txPc = "rollback"
    /\ Balance1 = -4200
    /\ Balance2 = 700
    /\ ~NoNegativeBalance
    /\ <<-4200, 700>> \in seen

\* =====================================================================
\* TestMongoDBCRUDOperations of mongodb_crud_tests.py: pytest calls
\* setup_method, the test function and teardown_method for each selected
\* test, in whatever order its plugins and options put the tests.  The
\* server is up, so connect() succeeds.
\* =====================================================================
CrudTests ==
    {"test_create_single_document", "test_create_multiple_documents",
     "test_read_documents", "test_update_documents", "test_delete_documents"}

\* what test_collection can hold before the class runs: nothing, or a
\* document of a run that was killed before its teardown
LeftInTestCollection ==
    {<<>>,
     <<[name |-> "temp2", temp |-> TRUE]>>,
     <<[status |-> "inactive", category |-> "A"]>>,
     <<[name |-> "Alice", age |-> 40, city |-> "New York"]>>}

\* positions of the documents a filter {field: value} matches
Matching(docs, field, value) ==
    {i \in 1..Len(docs) : field \in DOMAIN docs[i] /\ docs[i][field] = value}

\* the documents left when those at `positions` are deleted
Without(docs, positions) ==
    LET F[k \in 0..Len(docs)] ==
            IF k = 0 THEN <<>>
            ELSE IF k \in positions THEN F[k - 1]
            ELSE Append(F[k - 1], docs[k])
    IN F[Len(docs)]

\* what a test body returns to pytest: the collection as it leaves it, its
\* verdict and the numbers its assertions compared
Verdict(docs, passed, saw) == [docs |-> docs, passed |-> passed, saw |-> saw]

\* test_create_single_document; the inserted document is the last one
CreateSingle(docs) ==
    LET d1 == Append(docs, [name |-> "John Doe", email |-> "john@example.com",
                            age |-> 30])
        found_doc == d1[Len(d1)]
    IN Verdict(d1,
               found_doc.name = "John Doe" /\ found_doc.email = "john@example.com",
               <<>>)

\* test_create_multiple_documents
CreateMultiple(docs) ==
    LET test_docs == <<[name |-> "Alice", department |-> "Engineering",
                        salary |-> 75000],
                       [name |-> "Bob", department |-> "Marketing",
                        salary |-> 65000],
                       [name |-> "Charlie", department |-> "Engineering",
                        salary |-> 80000]>>
        d1 == docs \o test_docs
        count == Len(d1)
    IN Verdict(d1, Len(test_docs) = 3 /\ count = 3, <<Len(test_docs), count>>)

\* test_read_documents
ReadDocuments(docs) ==
    LET test_docs == <<[name |-> "Alice", age |-> 25, city |-> "New York"],
                       [name |-> "Bob", age |-> 30, city |-> "San Francisco"],
                       [name |-> "Charlie", age |-> 35, city |-> "New York"]>>
        d1 == docs \o test_docs
        all_docs == Len(d1)
        ny_docs == Cardinality(Matching(d1, "city", "New York"))
        alice == d1[FirstMatch(d1, "name", "Alice")]
        names_only == \A i \in 1..Len(d1) : "name" \in DOMAIN d1[i]
    IN Verdict(d1,
               all_docs = 3 /\ ny_docs = 2 /\ alice.age = 25 /\ names_only,
               <<all_docs, ny_docs, alice.age>>)

\* test_update_documents; update_one addresses the inserted document by
\* its _id
UpdateDocuments(docs) ==
    LET d1 == Append(docs, [name |-> "John", age |-> 25, status |-> "active"])
        doc_id == Len(d1)
        d2 == [d1 EXCEPT ![doc_id] = Put(Put(@, "age", 26), "last_updated", "now")]
        updated_doc == d2[doc_id]
        d3 == d2 \o <<[status |-> "inactive", category |-> "A"],
                      [status |-> "inactive", category |-> "B"]>>
        modified == Matching(d3, "status", "inactive")
        d4 == [i \in 1..Len(d3) |->
                  IF i \in modified THEN [d3[i] EXCEPT !.status = "archived"]
                  ELSE d3[i]]
    IN Verdict(d4,
               /\ updated_doc.age = 26
               /\ "last_updated" \in DOMAIN updated_doc
               /\ Cardinality(modified) = 2,
               <<updated_doc.age, Cardinality(modified)>>)

\* test_delete_documents
DeleteDocuments(docs) ==
    LET d1 == docs \o <<[name |-> "temp1", temp |-> TRUE],
                        [name |-> "temp2", temp |-> TRUE],
                        [name |-> "permanent", temp |-> FALSE]>>
        first == FirstMatch(d1, "name", "temp1")
        d2 == Without(d1, {first} \ {0})
        deleted_one == Len(d1) - Len(d2)
        d3 == Without(d2, Matching(d2, "temp", TRUE))
        deleted_many == Len(d2) - Len(d3)
        remaining == Len(d3)
    IN Verdict(d3,
               deleted_one = 1 /\ deleted_many = 1 /\ remaining = 1,
               <<deleted_one, deleted_many, remaining>>)

\* the body of a test function
TestBody(t, docs) ==
    CASE t = "test_create_single_document" -> CreateSingle(docs)
      [] t = "test_create_multiple_documents" -> CreateMultiple(docs)
      [] t = "test_read_documents" -> ReadDocuments(docs)
      [] t = "test_update_documents" -> UpdateDocuments(docs)
      [] t = "test_delete_documents" -> DeleteDocuments(docs)

CleanUp_Kept(d) == d

\* self.collection.delete_many({}) of setup_method and of teardown_method
CleanUp(d) == DeleteMany(d, "test_collection")

\* pytest has selected the tests of `pending`
CrudInit ==
    /\ RunnerIdle
    /\ OffCrudIdle
    /\ \E docs \in LeftInTestCollection :
          db \in {Empty, [c \in {"test_collection"} |->
                             [NoCollection EXCEPT !.docs = docs]]}
    /\ server = [rejects_invalid |-> FALSE, tls |-> FALSE]
    /\ attempt = 0
    /\ firstRun = <<>>
    /\ crudPc = "setup_method"
    /\ item = None
    /\ pending \in SUBSET CrudTests \ {{}}
    /\ outcomes = Empty

\* setup_method of the test pytest runs next
SetupMethod ==
    /\ crudPc = "setup_method"
    /\ \E t \in pending : item' = t
    /\ db' = CleanUp(db)
    /\ crudPc' = "call"
    /\ UNCHANGED <<pending, outcomes, server, attempt, firstRun>>
    /\ UNCHANGED <<runner, offCrud>>

\* the test function
CallTest ==
    /\ crudPc = "call"
    /\ LET out == TestBody(item, Coll(db, "test_collection").docs)
       IN /\ db' = Put(db, "test_collection",
                       [Coll(db, "test_collection") EXCEPT !.docs = out.docs])
          /\ outcomes' = Put(outcomes, item,
                             [passed |-> out.passed, saw |-> out.saw])
    /\ crudPc' = "teardown_method"
    /\ UNCHANGED <<item, pending, server, attempt, firstRun>>
    /\ UNCHANGED <<runner, offCrud>>

\* teardown_method, which pytest calls whether the test passed or not
TeardownMethod ==
    /\ crudPc = "teardown_method"
    /\ db' = CleanUp(db)
    /\ pending' = pending \ {item}
    /\ item' = None
    /\ crudPc' = IF pending' = {} THEN "done" ELSE "setup_method"
    /\ UNCHANGED <<outcomes, server, attempt, firstRun>>
    /\ UNCHANGED <<runner, offCrud>>

CrudNext ==
    \/ SetupMethod
    \/ CallTest
    \/ TeardownMethod

CrudSpec == CrudInit /\ [][CrudNext]_vars

\* what each test's assertions compare when the collection starts empty
OnEmpty(t) ==
    CASE t = "test_create_single_document" -> <<>>
      [] t = "test_create_multiple_documents" -> <<3, 3>>
      [] t = "test_read_documents" -> <<3, 2, 25>>
      [] t = "test_update_documents" -> <<26, 2>>
      [] t = "test_delete_documents" -> <<1, 1, 1>>

\* C29: every CRUD test starts on an empty test collection and leaves it
\* empty, because setup_method deletes all documents before it and
\* teardown_method after it; so each test's outcome is the same in any
\* order of the tests: three inserted documents count 3, and delete_one
\* followed by delete_many of the rest of the match leaves exactly the
\* document that does not match.
C29_EachTestOnEmptyCollection ==
    /\ crudPc = "call" => Coll(db, "test_collection").docs = <<>>
    /\ (crudPc \in {"setup_method", "done"} /\ outcomes # Empty) =>
          Coll(db, "test_collection").docs = <<>>
    /\ \A t \in DOMAIN outcomes :
          /\ outcomes[t].passed
          /\ outcomes[t].saw = OnEmpty(t)
    /\ (crudPc = "teardown_method" /\ item = "test_delete_documents") =>
          Coll(db, "test_collection").docs
             = <<[name |-> "permanent", temp |-> FALSE]>>

\* test_delete_documents ran last, after the four others, on a collection
\* that held a stale document before the class ran
C29_Witness ==
    /\ crudPc = "teardown_method"
    /\ item = "test_delete_documents"
    /\ pending = {"test_delete_documents"}
    /\ DOMAIN outcomes = CrudTests
    /\ outcomes["test_delete_documents"].saw = <<1, 1, 1>>
    /\ outcomes["test_create_multiple_documents"].saw = <<3, 3>>

\* the entries test_injection_attacks appended to test_results
InjectionResults ==
    {i \in 1..Len(test_results) :
        test_results[i].test_category = "NoSQL Injection Testing"}

\* the outer `except Exception` of test_injection_attacks ran
OuterHandlerReached(cases) ==
    \E j \in 1..Len(cases) : cases[j].test = "Injection Testing Setup"

====
